---- MODULE Spec2Model ----
(***************************************************************************)
(* Model of the asynchronous ingestion pipeline (AsyncEntrez with its      *)
(* DB_Runner, ID_Runner and Parser_Runner workers, driven by LoadingDB.run)*)
(* and of the record-to-graph mapper of src/database/load_db.py.           *)
(***************************************************************************)
EXTENDS Integers, Sequences, FiniteSets, TLC

\* ---------------------------------------------------------------- bounds
MaxCount == 2      \* largest Count of the initial query, runs without abort
SmallCount == 1    \* largest Count in the runs with abort and in fair runs
retmax == 2        \* page size of one id producer (scaled down)
batch == 1         \* ids one parser drains per fetch (scaled down)
MaxThreads == 4    \* largest maxThreadCount of the global thread pool
MaxFaults == 1     \* external calls / writes that may raise in one run
MaxRecords == 2    \* records written to the graph store in one load
MaxRuns == 2       \* RUN elements of one record
MaxAttr == 2       \* distinct attribute maps of one node kind
MaxReads == 2      \* READ_SPEC elements of a design, Read elements of a run
MaxSams == 2       \* SAMPLE elements, and pool members, of one record
MaxCalls == 2      \* repair methods called one after the other on a graph
MaxText == 3       \* characters of a property value drawn freely
MaxPasses == 2     \* runs of the repair pass on one graph

\* ------------------------------------------------------ program constants
max_parsers == 2
start_id == 0

VARIABLES
    mainpc,            \* position of LoadingDB.run / async_from_query
    startIdx,          \* loop index of the two start loops
    asyExists,         \* hasattr(self, 'asy')
    count,             \* self.count
    max_producers,     \* self.max_producers
    id_queue,          \* self.id_queue
    db_queue,          \* self.db_queue
    prod,              \* self.prod (threading.Event)
    pars,              \* self.pars
    event_abort,       \* self.event_abort
    error,             \* self.error
    abort,             \* self.abort (AsyncEntrez)
    lo_abort,          \* self.abort (LoadingDB)
    db_counter,        \* self.db_counter
    producers_counter, \* self.producers_counter
    parsers_counter,   \* self.parsers_counter
    maxThreadCount,    \* QThreadPool.maxThreadCount()
    poolQueue,         \* runnables queued in the pool, FIFO
    pc,                \* position of every worker
    tmp,               \* value a worker loaded in "counter += 1"
    d,                 \* DB_Runner: the record taken from db_queue
    id_list,           \* Parser_Runner: ids drained so far
    tries,             \* Parser_Runner: iterations of the drain loop done
    data,              \* Parser_Runner: fetched records not yet put
    ids,               \* ID_Runner: listed ids not yet put
    abortpc,           \* position of the GUI thread in LoadingDB._abort
    abortRequested,    \* history: sig_abort_load was delivered
    faults,            \* history: number of raised exceptions
    faulted,           \* history: roles that raised
    written,           \* history: records written by the consumer
    fetched,           \* history: per id, the fetch calls it was passed to
    lateOps,           \* history: per worker, calls begun with abort set
    pushedIds,         \* history: ids put on id_queue
    pushedRecs,        \* history: records put on db_queue
    finishedSig,       \* history: values emitted on LoadingDB.finished
    nodes,             \* graph store: the nodes, in creation order
    edges,             \* graph store: the relationships, in creation order
    cql,               \* the statement batch of the last written record
    cql_has_reads,     \* LoadingDB.cql_has_reads
    loaded,            \* history: the records written, with their exp_pkg
    pp_pc,             \* position of PostProcessingDB.run
    pp_finished,       \* history: values emitted on PostProcessingDB.finished
    pp_log,            \* history: the repair methods that have returned
    pp_raised,         \* history: the repair methods that have raised
    assemblies,        \* what the assembly lookup returns for the samples
    snaps              \* history: the graph given, and after each repair pass

pipeVars == <<mainpc, startIdx, asyExists, count, max_producers, id_queue,
              db_queue, prod, pars, event_abort, error, abort, lo_abort,
              db_counter, producers_counter, parsers_counter,
              maxThreadCount, poolQueue, pc, tmp, d, id_list, tries, data,
              ids, abortpc, abortRequested, faults, faulted, written,
              fetched, lateOps, pushedIds, pushedRecs, finishedSig>>

graphV == <<nodes, edges, cql, cql_has_reads, loaded>>

ppV == <<pp_pc, pp_finished, pp_log, pp_raised, assemblies, snaps>>

vars == <<pipeVars, graphV, ppV>>

\* ---------------------------------------------------------------- workers
DB == <<"db", 0>>
Par(i) == <<"par", i>>
Id(k) == <<"id", k>>

\* len(list(range(0, count, retmax)))
NumPages(c) == (c + retmax - 1) \div retmax

Parsers == {Par(i) : i \in 0..(max_parsers - 1)}
\* the smallest result set of two pages
TwoPages == retmax + 1

\* the largest result set of any specification
TopCount ==
    LET m == IF MaxCount > SmallCount THEN MaxCount ELSE SmallCount
    IN  IF TwoPages > m THEN TwoPages ELSE m

Producers == {Id(k) : k \in 0..(NumPages(TopCount) - 1)}
Workers == {DB} \cup Parsers \cup Producers

Role(w) == w[1]

\* first position of a runnable's run()
StartPc(w) == IF Role(w) = "id" THEN "check_abort" ELSE "test_empty"

Running(w) == pc[w] \notin {"idle", "queued", "done"}
Active == Cardinality({w \in Workers : Running(w)})

Min(a, b) == IF a < b THEN a ELSE b

\* ids of the page [retstart, retstart + retmax) of a result set of c ids
PageIds(k, c) ==
    LET retstart == k * retmax
        n == Min(retstart + retmax, c) - retstart
    IN  [j \in 1..(IF n > 0 THEN n ELSE 0) |-> retstart + j]

\* QThreadPool.start: run at once when a thread is free, else enqueue
PoolStart(w) ==
    IF Active < maxThreadCount
    THEN /\ pc' = [pc EXCEPT ![w] = StartPc(w)]
         /\ UNCHANGED poolQueue
    ELSE /\ pc' = [pc EXCEPT ![w] = "queued"]
         /\ poolQueue' = Append(poolQueue, w)

\* a runnable returns: its thread takes the next queued runnable
PoolExit(w) ==
    IF poolQueue # <<>>
    THEN /\ pc' = [pc EXCEPT ![w] = "done",
                             ![Head(poolQueue)] = StartPc(Head(poolQueue))]
         /\ poolQueue' = Tail(poolQueue)
    ELSE /\ pc' = [pc EXCEPT ![w] = "done"]
         /\ UNCHANGED poolQueue

InitPipeline ==
    /\ mainpc = "run"
    /\ startIdx = 0
    /\ asyExists = FALSE
    /\ count = 0
    /\ max_producers = 0
    /\ id_queue = <<>>
    /\ db_queue = <<>>
    /\ prod = FALSE
    /\ pars = FALSE
    /\ event_abort = FALSE
    /\ error = FALSE
    /\ abort = FALSE
    /\ lo_abort = FALSE
    /\ db_counter = start_id
    /\ producers_counter = 0
    /\ parsers_counter = 0
    /\ maxThreadCount \in 1..MaxThreads
    /\ poolQueue = <<>>
    /\ pc = [w \in Workers |-> "idle"]
    /\ tmp = [w \in Workers |-> 0]
    /\ d = 0
    /\ id_list = [w \in Parsers |-> <<>>]
    /\ tries = [w \in Parsers |-> 0]
    /\ data = [w \in Parsers |-> <<>>]
    /\ ids = [w \in Producers |-> <<>>]
    /\ abortpc = "idle"
    /\ abortRequested = FALSE
    /\ faults = 0
    /\ faulted = {}
    /\ written = <<>>
    /\ fetched = [i \in 1..TopCount |-> 0]
    /\ lateOps = [w \in Workers |-> 0]
    /\ pushedIds = {}
    /\ pushedRecs = {}
    /\ finishedSig = <<>>
    /\ cql = <<>>
    /\ cql_has_reads = FALSE
    /\ loaded = <<>>
    /\ pp_pc = "idle"
    /\ pp_finished = <<>>
    /\ pp_log = <<>>
    /\ pp_raised = {}

\* the store after clear_db
Init ==
    /\ InitPipeline
    /\ nodes = <<>>
    /\ edges = <<>>
    /\ assemblies = <<>>
    /\ snaps = <<>>

\* ------------------------------------------------------- variable groups
mainV == <<mainpc, startIdx, asyExists, count, max_producers>>
flagV == <<prod, pars, event_abort, error, abort>>
queueV == <<id_queue, db_queue>>
counterV == <<db_counter, producers_counter, parsers_counter>>
localV == <<tmp, d, id_list, tries, data, ids>>
guiV == <<abortpc, abortRequested, lo_abort>>
faultV == <<faults, faulted>>
logV == <<written, fetched, lateOps, pushedIds, pushedRecs, finishedSig>>
\* what no step of the pipeline changes: the pool size, and the graph store,
\* whose writes the pipeline steps record in written
fixedV == <<maxThreadCount, graphV, ppV>>

\* a call begun by worker w while the abort flag is already set
Late(w) == [lateOps EXCEPT ![w] = IF event_abort THEN @ + 1 ELSE @]

\* ------------------------------------------------ LoadingDB.run (thread)
\* async_load_sra_from_query: self.asy = AsyncEntrez(...)
Main_CreateAsy ==
    /\ mainpc = "run"
    /\ mainpc' = "initial"
    /\ asyExists' = TRUE
    /\ UNCHANGED <<startIdx, count, max_producers, flagV, queueV, counterV,
                   fixedV, poolQueue, pc, localV, guiV, faultV,
                   logV>>

\* async_from_query: the initial result-count query returns c <= C
Main_Initial(C) ==
    /\ mainpc = "initial"
    /\ \E c \in 0..C :
         /\ count' = c
         /\ max_producers' = NumPages(c)
         /\ mainpc' = IF c = 0 THEN "emit" ELSE "start_db"
    /\ producers_counter' = 0
    /\ parsers_counter' = 0
    /\ UNCHANGED <<startIdx, asyExists, flagV, queueV, db_counter,
                   fixedV, poolQueue, pc, localV, guiV, faultV,
                   logV>>

\* the initial query raises: the exception leaves run(), nothing is emitted
Main_InitialRaises ==
    /\ mainpc = "initial"
    /\ faults < MaxFaults
    /\ mainpc' = "crashed"
    /\ faults' = faults + 1
    /\ faulted' = faulted \cup {"initial"}
    /\ UNCHANGED <<startIdx, asyExists, count, max_producers, flagV, queueV,
                   counterV, fixedV, poolQueue, pc, localV, guiV,
                   logV>>

\* self.pool.start(db_worker)
Main_StartDB ==
    /\ mainpc = "start_db"
    /\ PoolStart(DB)
    /\ mainpc' = "start_parser0"
    /\ UNCHANGED <<startIdx, asyExists, count, max_producers, flagV, queueV,
                   counterV, fixedV, localV, guiV, faultV, logV>>

\* self.pool.start(parser_worker) for parser 0
Main_StartParser0 ==
    /\ mainpc = "start_parser0"
    /\ PoolStart(Par(0))
    /\ mainpc' = "start_producers"
    /\ startIdx' = 0
    /\ UNCHANGED <<asyExists, count, max_producers, flagV, queueV,
                   counterV, fixedV, localV, guiV, faultV, logV>>

\* for retstart in range(0, count, retmax): pool.start(id_worker); sleep(1)
Main_StartProducer ==
    /\ mainpc = "start_producers"
    /\ startIdx < max_producers
    /\ PoolStart(Id(startIdx))
    /\ IF startIdx + 1 < max_producers
       THEN /\ startIdx' = startIdx + 1
            /\ mainpc' = "start_producers"
       ELSE /\ startIdx' = 1
            /\ mainpc' = IF 1 < max_parsers THEN "start_parsers" ELSE "wait"
    /\ UNCHANGED <<asyExists, count, max_producers, flagV, queueV,
                   counterV, fixedV, localV, guiV, faultV, logV>>

\* for i in range(1, max_parsers): pool.start(parser_worker)
Main_StartParsers ==
    /\ mainpc = "start_parsers"
    /\ startIdx < max_parsers
    /\ PoolStart(Par(startIdx))
    /\ startIdx' = startIdx + 1
    /\ mainpc' = IF startIdx + 1 < max_parsers THEN "start_parsers"
                 ELSE "wait"
    /\ UNCHANGED <<asyExists, count, max_producers, flagV, queueV,
                   counterV, fixedV, localV, guiV, faultV, logV>>

\* self.pool.waitForDone(): returns when no runnable is active or queued
Main_WaitForDone ==
    /\ mainpc = "wait"
    /\ Active = 0
    /\ poolQueue = <<>>
    /\ mainpc' = "emit"
    /\ UNCHANGED <<startIdx, asyExists, count, max_producers, flagV, queueV,
                   counterV, fixedV, poolQueue, pc, localV, guiV,
                   faultV, logV>>

\* (a load that reports whether it succeeded instead of whether it failed)
FinishedValueNegated == ~(abort \/ error)

\* the value LoadingDB.run passes to finished.emit
FinishedValue == abort \/ error

\* self.finished.emit(self.asy.abort | self.asy.error)
Main_Emit ==
    /\ mainpc = "emit"
    /\ finishedSig' = Append(finishedSig, FinishedValue)
    /\ mainpc' = "done"
    /\ UNCHANGED <<startIdx, asyExists, count, max_producers, flagV, queueV,
                   counterV, fixedV, poolQueue, pc, localV, guiV,
                   faultV, written, fetched, lateOps, pushedIds,
                   pushedRecs>>

\* --------------------------------- LoadingDB._abort / AsyncEntrez._abort
\* sig_abort_load reaches the slot LoadingDB._abort:
\* if hasattr(self, 'asy'): self.asy._abort() (begins with abort = True);
\* without asy only LoadingDB.abort = True is left to do
Abort_Request ==
    /\ abortpc = "idle"
    /\ mainpc \notin {"done", "crashed"}
    /\ abortRequested' = TRUE
    /\ IF asyExists
       THEN /\ abort' = TRUE
            /\ abortpc' = "set_prod"
            /\ UNCHANGED lo_abort
       ELSE /\ lo_abort' = TRUE
            /\ abortpc' = "done"
            /\ UNCHANGED abort
    /\ UNCHANGED <<mainV, prod, pars, event_abort, error, queueV, counterV,
                   fixedV, poolQueue, pc, localV, faultV, logV>>

\* the rest of AsyncEntrez._abort, one statement per step: prod.set();
\* pars.set(); event_abort.set(), and back in the slot LoadingDB.abort = True
Abort_Step ==
    /\ abortpc \in {"set_prod", "set_pars", "set_event"}
    /\ prod' = IF abortpc = "set_prod" THEN TRUE ELSE prod
    /\ pars' = IF abortpc = "set_pars" THEN TRUE ELSE pars
    /\ event_abort' = IF abortpc = "set_event" THEN TRUE ELSE event_abort
    /\ lo_abort' = IF abortpc = "set_event" THEN TRUE ELSE lo_abort
    /\ abortpc' = CASE abortpc = "set_prod" -> "set_pars"
                    [] abortpc = "set_pars" -> "set_event"
                    [] abortpc = "set_event" -> "done"
    /\ UNCHANGED <<mainV, error, abort, queueV, counterV, fixedV,
                   poolQueue, pc, localV, abortRequested, faultV, logV>>

\* ------------------------------------------- AsyncEntrez.handle_error
\* an external call or a write of worker w raises
RaiseIn(w) ==
    /\ faults < MaxFaults
    /\ faults' = faults + 1
    /\ faulted' = faulted \cup {Role(w)}

\* position of a worker after handle_error returned
AfterError(w) == IF Role(w) = "id" THEN "done" ELSE "test_empty"

\* (a handle_error that leaves out event_abort.set())
HandleErrorNoAbort(w) ==
    /\ pc[w] \in {"he_prod", "he_pars", "he_error", "he_abort"}
    /\ prod' = IF pc[w] = "he_prod" THEN TRUE ELSE prod
    /\ pars' = IF pc[w] = "he_pars" THEN TRUE ELSE pars
    /\ error' = IF pc[w] = "he_error" THEN TRUE ELSE error
    /\ IF pc[w] = "he_abort" /\ AfterError(w) = "done"
       THEN PoolExit(w)
       ELSE /\ pc' = [pc EXCEPT ![w] =
                        CASE pc[w] = "he_prod" -> "he_pars"
                          [] pc[w] = "he_pars" -> "he_error"
                          [] pc[w] = "he_error" -> "he_abort"
                          [] pc[w] = "he_abort" -> AfterError(w)]
            /\ UNCHANGED poolQueue
    /\ UNCHANGED <<mainV, abort, event_abort, queueV, counterV,
                   fixedV, localV, guiV, faultV, logV>>

\* prod.set(); pars.set(); error = True; event_abort.set()
HandleError(w) ==
    /\ pc[w] \in {"he_prod", "he_pars", "he_error", "he_abort"}
    /\ prod' = IF pc[w] = "he_prod" THEN TRUE ELSE prod
    /\ pars' = IF pc[w] = "he_pars" THEN TRUE ELSE pars
    /\ error' = IF pc[w] = "he_error" THEN TRUE ELSE error
    /\ event_abort' = IF pc[w] = "he_abort" THEN TRUE ELSE event_abort
    /\ IF pc[w] = "he_abort" /\ AfterError(w) = "done"
       THEN PoolExit(w)
       ELSE /\ pc' = [pc EXCEPT ![w] =
                        CASE pc[w] = "he_prod" -> "he_pars"
                          [] pc[w] = "he_pars" -> "he_error"
                          [] pc[w] = "he_error" -> "he_abort"
                          [] pc[w] = "he_abort" -> AfterError(w)]
            /\ UNCHANGED poolQueue
    /\ UNCHANGED <<mainV, abort, queueV, counterV, fixedV, localV,
                   guiV, faultV, logV>>


\* ------------------------------------------------------- DB_Runner.run
\* while not (db_queue.empty() and ...): the left operand
DB_TestEmpty ==
    /\ pc[DB] = "test_empty"
    /\ pc' = [pc EXCEPT ![DB] = IF db_queue = <<>> THEN "test_pars"
                                ELSE "check_abort"]
    /\ UNCHANGED <<mainV, flagV, queueV, counterV, fixedV, poolQueue,
                   localV, guiV, faultV, logV>>

\* ... and pars.is_set()): the right operand, read after the left one
DB_TestPars ==
    /\ pc[DB] = "test_pars"
    /\ IF pars
       THEN PoolExit(DB)
       ELSE /\ pc' = [pc EXCEPT ![DB] = "check_abort"]
            /\ UNCHANGED poolQueue
    /\ UNCHANGED <<mainV, flagV, queueV, counterV, fixedV, localV,
                   guiV, faultV, logV>>

\* (a consumer that does not look at the abort flag)
DB_CheckAbortIgnored ==
    /\ pc[DB] = "check_abort"
    /\ pc' = [pc EXCEPT ![DB] = "get"]
    /\ UNCHANGED <<mainV, flagV, queueV, counterV, fixedV, poolQueue,
                   localV, guiV, faultV, logV>>

\* if event_abort.is_set(): break
DB_CheckAbort ==
    /\ pc[DB] = "check_abort"
    /\ IF event_abort
       THEN PoolExit(DB)
       ELSE /\ pc' = [pc EXCEPT ![DB] = "get"]
            /\ UNCHANGED poolQueue
    /\ UNCHANGED <<mainV, flagV, queueV, counterV, fixedV, localV,
                   guiV, faultV, logV>>

\* d = db_queue.get(False); on queue.Empty sleep(0.5) and test again
DB_Get ==
    /\ pc[DB] = "get"
    /\ IF db_queue = <<>>
       THEN /\ pc' = [pc EXCEPT ![DB] = "test_empty"]
            /\ UNCHANGED <<d, db_queue>>
       ELSE /\ d' = Head(db_queue)
            /\ db_queue' = Tail(db_queue)
            /\ pc' = [pc EXCEPT ![DB] = "write"]
    /\ UNCHANGED <<mainV, flagV, id_queue, counterV, fixedV,
                   poolQueue, tmp, id_list, tries, data, ids, guiV, faultV,
                   logV>>

\* (a consumer that never advances the counter)
DbCheckerStuck(c) == c

\* _db_checker: self.db_counter += 1
DbChecker(c) == c + 1

\* self.fun(d, self.parent.db_counter) commits the record's batch tagged
\* with db_counter; then self.parent._db_checker()
DB_Write ==
    /\ pc[DB] = "write"
    /\ written' = Append(written, [rec |-> d, tag |-> db_counter,
                                   afterFault |-> "par" \in faulted,
                                   afterAbort |-> event_abort,
                                   afterRequest |-> abort])
    /\ lateOps' = Late(DB)
    /\ db_counter' = DbChecker(db_counter)
    /\ pc' = [pc EXCEPT ![DB] = "test_empty"]
    /\ UNCHANGED <<mainV, flagV, queueV, producers_counter, parsers_counter,
                   fixedV, poolQueue, localV, guiV, faultV, fetched,
                   pushedIds, pushedRecs, finishedSig>>

\* self.fun(d, db_counter) raises: handle_error('DB_Runner', exc)
DB_WriteRaises ==
    /\ pc[DB] = "write"
    /\ RaiseIn(DB)
    /\ lateOps' = Late(DB)
    /\ pc' = [pc EXCEPT ![DB] = "he_prod"]
    /\ UNCHANGED <<mainV, flagV, queueV, counterV, fixedV, poolQueue,
                   localV, guiV, written, fetched, pushedIds, pushedRecs,
                   finishedSig>>

\* ------------------------------------------------------- ID_Runner.run
\* if not event_abort.is_set(): ... else fall through to the end
ID_CheckAbort(w) ==
    /\ pc[w] = "check_abort"
    /\ IF event_abort
       THEN PoolExit(w)
       ELSE /\ pc' = [pc EXCEPT ![w] = "list"]
            /\ UNCHANGED poolQueue
    /\ UNCHANGED <<mainV, flagV, queueV, counterV, fixedV, localV,
                   guiV, faultV, logV>>

\* data = self.fun(retstart, retmax); ids = data['IdList']
ID_List(w) ==
    /\ pc[w] = "list"
    /\ ids' = [ids EXCEPT ![w] = PageIds(w[2], count)]
    /\ lateOps' = Late(w)
    /\ pc' = [pc EXCEPT ![w] = IF PageIds(w[2], count) = <<>>
                               THEN "checker_load" ELSE "put"]
    /\ UNCHANGED <<mainV, flagV, queueV, counterV, fixedV, poolQueue,
                   tmp, d, id_list, tries, data, guiV, faultV, written,
                   fetched, pushedIds, pushedRecs, finishedSig>>

\* self.fun(retstart, retmax) raises: handle_error('ID_Runner', exc)
ID_ListRaises(w) ==
    /\ pc[w] = "list"
    /\ RaiseIn(w)
    /\ lateOps' = Late(w)
    /\ pc' = [pc EXCEPT ![w] = "he_prod"]
    /\ UNCHANGED <<mainV, flagV, queueV, counterV, fixedV, poolQueue,
                   localV, guiV, written, fetched, pushedIds, pushedRecs,
                   finishedSig>>

\* [id_queue.put(_id) for _id in ids], one put per step; after the last
\* put the runnable goes on to _producers_checker
ID_Put(w) ==
    /\ pc[w] = "put"
    /\ id_queue' = Append(id_queue, Head(ids[w]))
    /\ pushedIds' = pushedIds \cup {Head(ids[w])}
    /\ ids' = [ids EXCEPT ![w] = Tail(ids[w])]
    /\ pc' = [pc EXCEPT ![w] = IF Tail(ids[w]) = <<>> THEN "checker_load"
                               ELSE "put"]
    /\ UNCHANGED <<mainV, flagV, db_queue, counterV, fixedV,
                   poolQueue, tmp, d, id_list, tries, data, guiV, faultV,
                   written, fetched, lateOps, pushedRecs, finishedSig>>

\* ---------------------- _producers_checker / _parser_checker (no lock)
\* counter += 1, the load of the attribute
Checker_Load(w) ==
    /\ pc[w] = "checker_load"
    /\ tmp' = [tmp EXCEPT ![w] = IF Role(w) = "id" THEN producers_counter
                                 ELSE parsers_counter]
    /\ pc' = [pc EXCEPT ![w] = "checker_store"]
    /\ UNCHANGED <<mainV, flagV, queueV, counterV, fixedV, poolQueue,
                   d, id_list, tries, data, ids, guiV, faultV, logV>>

\* counter += 1, the store of the loaded value plus one
Checker_Store(w) ==
    /\ pc[w] = "checker_store"
    /\ IF Role(w) = "id"
       THEN /\ producers_counter' = tmp[w] + 1
            /\ UNCHANGED parsers_counter
       ELSE /\ parsers_counter' = tmp[w] + 1
            /\ UNCHANGED producers_counter
    /\ pc' = [pc EXCEPT ![w] = "checker_test"]
    /\ UNCHANGED <<mainV, flagV, queueV, db_counter, fixedV,
                   poolQueue, localV, guiV, faultV, logV>>

\* if counter == max: event.set(); the runnable then returns
Checker_Test(w) ==
    /\ pc[w] = "checker_test"
    /\ IF Role(w) = "id"
       THEN /\ prod' = (prod \/ producers_counter = max_producers)
            /\ UNCHANGED pars
       ELSE /\ pars' = (pars \/ parsers_counter = max_parsers)
            /\ UNCHANGED prod
    /\ PoolExit(w)
    /\ UNCHANGED <<mainV, event_abort, error, abort, queueV, counterV,
                   fixedV, localV, guiV, faultV, logV>>


\* --------------------------------------------------- Parser_Runner.run
\* while not (id_queue.empty() and ...): the left operand
Par_TestEmpty(w) ==
    /\ pc[w] = "test_empty"
    /\ pc' = [pc EXCEPT ![w] = IF id_queue = <<>> THEN "test_prod"
                               ELSE "check_abort"]
    /\ UNCHANGED <<mainV, flagV, queueV, counterV, fixedV, poolQueue,
                   localV, guiV, faultV, logV>>

\* ... and prod.is_set()): the right operand, read after the left one;
\* when it holds the loop ends and _parser_checker is called
Par_TestProd(w) ==
    /\ pc[w] = "test_prod"
    /\ pc' = [pc EXCEPT ![w] = IF prod THEN "checker_load"
                               ELSE "check_abort"]
    /\ UNCHANGED <<mainV, flagV, queueV, counterV, fixedV, poolQueue,
                   localV, guiV, faultV, logV>>

\* if event_abort.is_set(): break; else id_list = []
Par_CheckAbort(w) ==
    /\ pc[w] = "check_abort"
    /\ IF event_abort
       THEN /\ pc' = [pc EXCEPT ![w] = "checker_load"]
            /\ UNCHANGED <<id_list, tries>>
       ELSE /\ pc' = [pc EXCEPT ![w] = "drain"]
            /\ id_list' = [id_list EXCEPT ![w] = <<>>]
            /\ tries' = [tries EXCEPT ![w] = 0]
    /\ UNCHANGED <<mainV, flagV, queueV, counterV, fixedV, poolQueue,
                   tmp, d, data, ids, guiV, faultV, logV>>

\* one iteration of: for _ in range(batch):
\*     try: id_list.append(id_queue.get(False)) except queue.Empty: pass
\* after the last one: fetch if id_list else sleep(0.5) and test again
Par_Drain(w) ==
    /\ pc[w] = "drain"
    /\ LET got == IF id_queue = <<>> THEN id_list[w]
                  ELSE Append(id_list[w], Head(id_queue))
       IN  /\ id_list' = [id_list EXCEPT ![w] = got]
           /\ id_queue' = IF id_queue = <<>> THEN id_queue
                          ELSE Tail(id_queue)
           /\ tries' = [tries EXCEPT ![w] = tries[w] + 1]
           /\ pc' = [pc EXCEPT ![w] =
                       IF tries[w] + 1 < batch THEN "drain"
                       ELSE IF got # <<>> THEN "fetch" ELSE "test_empty"]
    /\ UNCHANGED <<mainV, flagV, db_queue, counterV, fixedV,
                   poolQueue, tmp, d, data, ids, guiV, faultV, logV>>

\* the fetch log after one more call with the ids of seq
Fetched(seq) ==
    [i \in DOMAIN fetched |->
        fetched[i] + Cardinality({j \in 1..Len(seq) : seq[j] = i})]

\* data = self.__get_data_from_ids_helper(id_list): one record per id
Par_Fetch(w) ==
    /\ pc[w] = "fetch"
    /\ fetched' = Fetched(id_list[w])
    /\ lateOps' = Late(w)
    /\ data' = [data EXCEPT ![w] = id_list[w]]
    /\ pc' = [pc EXCEPT ![w] = "put"]
    /\ UNCHANGED <<mainV, flagV, queueV, counterV, fixedV, poolQueue,
                   tmp, d, id_list, tries, ids, guiV, faultV, written,
                   pushedIds, pushedRecs, finishedSig>>

\* the fetch raises: handle_error('Parser_Runner', exc), nothing is put
Par_FetchRaises(w) ==
    /\ pc[w] = "fetch"
    /\ RaiseIn(w)
    /\ fetched' = Fetched(id_list[w])
    /\ lateOps' = Late(w)
    /\ pc' = [pc EXCEPT ![w] = "he_prod"]
    /\ UNCHANGED <<mainV, flagV, queueV, counterV, fixedV, poolQueue,
                   localV, guiV, written, pushedIds, pushedRecs,
                   finishedSig>>

\* [db_queue.put(d) for d in data], one put per step; after the last put
\* the loop condition is tested again
Par_Put(w) ==
    /\ pc[w] = "put"
    /\ db_queue' = Append(db_queue, Head(data[w]))
    /\ pushedRecs' = pushedRecs \cup {Head(data[w])}
    /\ data' = [data EXCEPT ![w] = Tail(data[w])]
    /\ pc' = [pc EXCEPT ![w] = IF Tail(data[w]) = <<>> THEN "test_empty"
                               ELSE "put"]
    /\ UNCHANGED <<mainV, flagV, id_queue, counterV, fixedV,
                   poolQueue, tmp, d, id_list, tries, ids, guiV, faultV,
                   written, fetched, lateOps, pushedIds, finishedSig>>

\* ------------------------------------------------- input records (XML)
\* One experiment package, reduced to what the statement builders read:
\* the attribute maps of the merged nodes (by number), the read
\* specifications and the samples, pool members and runs with their children.
RunDom(k) ==
    [acc |-> k, stats |-> 0, rpool |-> <<>>, files |-> 0, cloud |-> 0,
     bases |-> FALSE]

ExpPkg(o, s, k) ==
    [org |-> o, stu |-> s, sub |-> 1, inst |-> 1, spd |-> FALSE, reads |-> 0,
     bcs |-> 0,
     sams |-> <<[acc |-> 1, att |-> 0]>>, pool |-> <<>>,
     runs |-> [i \in 1..k |-> RunDom(i)]]

Records == {ExpPkg(o, s, k) : o \in 1..MaxAttr, s \in 1..MaxAttr, k \in 0..MaxRuns}

\* A run with st Read elements in its Statistics and, when f = 1, one pool
\* member, one SRA file, one cloud file and its Bases element.
RunDomOf(k, st, f) ==
    [acc |-> k, stats |-> st, rpool |-> [j \in 1..f |-> j], files |-> f,
     cloud |-> f, bases |-> (f = 1)]

\* the Read counts of the runs of one RUN_SET
StatSeqs == UNION {[1..k -> 0..MaxReads] : k \in 0..MaxRuns}

\* A package whose design has a spot decode spec with rd READ_SPEC
\* elements (none at all when rd < 0), each with f basecalls, ns samples
\* (every second one with attributes) and np pool members.
WidePkg(rd, ns, np, stats, f) ==
    [org |-> 1, stu |-> 1, sub |-> 1, inst |-> 1, spd |-> (rd >= 0),
     reads |-> IF rd >= 0 THEN rd ELSE 0, bcs |-> f,
     sams |-> [i \in 1..ns |-> [acc |-> i, att |-> i % 2]],
     pool |-> [i \in 1..np |-> i],
     runs |-> [i \in 1..Len(stats) |-> RunDomOf(i, stats[i], f)]]

WideRecords ==
    {WidePkg(rd, ns, np, stats, f) :
        rd \in (-1)..MaxReads, ns \in 1..MaxSams, np \in 0..MaxSams,
        stats \in StatSeqs, f \in 0..1}

\* ------------------------------------------------ helper_functions.py
EmptyMap == [k \in {} |-> 0]

merge_dict(d1, d2) == d2 @@ d1

cql_create(label, attributes, variable, merge) ==
    [kind |-> "node", tag |-> IF merge THEN "MERGE" ELSE "CREATE",
     var |-> variable, label |-> label, attrs |-> attributes,
     src |-> "", rel |-> "", dst |-> ""]

cql_relation(source, relation, goal, merge, attributes) ==
    [kind |-> "rel", tag |-> IF merge THEN "MERGE" ELSE "CREATE",
     var |-> "", label |-> "", attrs |-> attributes,
     src |-> source, rel |-> relation, dst |-> goal]

RECURSIVE Join(_)
\* ' '.join(cql): the statements of the parts, in order; a loop
\* "for i, x in enumerate(xs)" joins the statements of its passes
Join(parts) == IF parts = <<>> THEN <<>> ELSE Head(parts) \o Join(Tail(parts))

Var(name, i) == name \o ToString(i)
Var2(name, i, j) == name \o ToString(i) \o ToString(j)

\* ------------------------------------------------------ LoadingDB._get_*
get_design(n) == [exp_pkg |-> n]
get_library(n) == [exp_pkg |-> n]
get_spot_descriptor(rec, n) == IF rec.spd THEN [exp_pkg |-> n] ELSE EmptyMap
get_base_calls(b, n) == [exp_pkg |-> n, basecall |-> b]
get_read_specs(rec, n) ==
    IF rec.spd
    THEN [i \in 1..rec.reads |->
             [exp_pkg |-> n, READ_INDEX |-> i - 1,
              basecalls |-> [b \in 1..rec.bcs |-> get_base_calls(b, n)]]]
    ELSE <<>>
get_instrument(rec) == [model |-> rec.inst]
get_experiment(n) == [exp_pkg |-> n]
get_submission(rec) == [accession |-> rec.sub]
get_organization(rec) == [name |-> rec.org]
get_study(rec) == [accession |-> rec.stu]
get_sample(sam) == [accession |-> sam.acc]
get_sample_attributes(sam) == IF sam.att > 0 THEN [tag |-> sam.att] ELSE EmptyMap
get_member(mem, n) == [exp_pkg |-> n, accession |-> mem]
get_run(run, n) == [exp_pkg |-> n, accession |-> run.acc]
get_statistics(run) == [i \in 1..run.stats |-> [index |-> i - 1]]
get_run_attributes(n) == [exp_pkg |-> n]
get_SRA_files(run) == [j \in 1..run.files |-> [filename |-> j]]
get_cloud_files(run) == [j \in 1..run.cloud |-> [filetype |-> j]]
get_bases(run, n) == IF run.bases THEN [exp_pkg |-> n] ELSE EmptyMap

\* --------------------------------------------------- LoadingDB._cql_of_*
cql_of_reads(reads) ==
    LET Body(i, read) ==
            LET bcs == read.basecalls
                rd == [k \in DOMAIN read \ {"basecalls"} |-> read[k]]
                Basecall(j, bc) ==
                    <<cql_create("basecall", bc, Var2("bc", rd.READ_INDEX, j),
                                 FALSE),
                      cql_relation(Var("rd", rd.READ_INDEX), "hasBasecall",
                                   Var2("bc", rd.READ_INDEX, j), FALSE,
                                   EmptyMap)>>
            IN  <<cql_create("read", rd, Var("rd", rd.READ_INDEX), FALSE),
                  cql_relation("des", "hasRead", Var("rd", rd.READ_INDEX),
                               FALSE, EmptyMap)>>
                \o Join([j \in 1..Len(bcs) |-> Basecall(j - 1, bcs[j])])
    IN  Join([k \in 1..Len(reads) |-> Body(k - 1, reads[k])])

cql_of_experiment(rec, n) ==
    LET spd == get_spot_descriptor(rec, n)
        reads == get_read_specs(rec, n)
    IN  <<cql_create("design", get_design(n), "des", FALSE),
          cql_create("library", get_library(n), "lib", FALSE),
          cql_relation("des", "usingLibrary", "lib", FALSE, EmptyMap)>>
        \o (IF DOMAIN spd # {}
            THEN <<cql_create("spot_descriptor", spd, "spd", FALSE),
                   cql_relation("des", "hasSpotDescriptor", "spd", FALSE,
                                EmptyMap)>>
            ELSE <<>>)
        \o (IF reads = <<>> THEN <<>> ELSE cql_of_reads(reads))
        \o <<cql_create("platform", get_instrument(rec), "inst", TRUE),
             cql_create("experiment", get_experiment(n), "exp", FALSE),
             cql_relation("exp", "hasDesign", "des", FALSE, EmptyMap),
             cql_relation("exp", "usingInstrument", "inst", FALSE, EmptyMap)>>

cql_of_submission(rec) ==
    <<cql_create("submission", get_submission(rec), "sub", TRUE),
      cql_relation("exp", "submittedBy", "sub", FALSE, EmptyMap)>>

\* the organization node, created with every record instead of merged
cql_of_organization_created(rec) ==
    <<cql_create("organization", get_organization(rec), "org", FALSE)>>

cql_of_organization(rec) ==
    <<cql_create("organization", get_organization(rec), "org", TRUE)>>

cql_of_study(rec) ==
    <<cql_create("study", get_study(rec), "stu", TRUE),
      cql_relation("stu", "carriedOutBy", "org", TRUE, EmptyMap),
      cql_relation("exp", "doneIn", "stu", FALSE, EmptyMap)>>

cql_of_samples(sams) ==
    LET Body(i, sam) ==
            LET att == get_sample_attributes(sam)
            IN  <<cql_create("sample", get_sample(sam), Var("sam", i), TRUE),
                  cql_relation(Var("sam", i), "submittedBy", "sub", TRUE,
                               EmptyMap),
                  cql_relation(Var("sam", i), "usedIn", "exp", FALSE, EmptyMap),
                  cql_relation(Var("sam", i), "usedIn", "stu", TRUE, EmptyMap)>>
                \o (IF DOMAIN att # {}
                    THEN <<cql_create("sample_attrib", att, Var("sam_att", i),
                                      TRUE),
                           cql_relation(Var("sam", i), "hasSampleAttribute",
                                        Var("sam_att", i), TRUE, EmptyMap)>>
                    ELSE <<>>)
    IN  Join([k \in 1..Len(sams) |-> Body(k - 1, sams[k])])

cql_of_pool(pool, n) ==
    LET Body(i, mem) ==
            <<cql_create("member", get_member(mem, n), Var("mem", i), TRUE),
              cql_relation(Var("sam", i), "hasPoolData", Var("mem", i), FALSE,
                           EmptyMap)>>
    IN  Join([k \in 1..Len(pool) |-> Body(k - 1, pool[k])])

cql_of_read_statistics(reads, run_var, empty_read) ==
    LET Body(i, read) ==
            <<cql_relation(run_var, "readStatistics",
                           IF empty_read THEN "rd" ELSE Var("rd", read.index),
                           FALSE, read)>>
    IN  Join([k \in 1..Len(reads) |-> Body(k - 1, reads[k])])

\* the statements of the runs, without the relationship from the experiment
cql_of_runs_unlinked(runs, n, has_reads) ==
    LET Body(i, run) ==
            <<cql_create("run", get_run(run, n), Var("run", i), FALSE)>>
    IN  Join([k \in 1..Len(runs) |-> Body(k - 1, runs[k])])

cql_of_runs(runs, n, has_reads) ==
    LET Body(i, run) ==
            LET reads == get_statistics(run)
                r == IF reads = <<>> THEN get_run(run, n)
                     ELSE merge_dict(get_run(run, n), [nreads |-> run.stats])
                Member(j, mem) ==
                    <<cql_create("member", get_member(mem, n),
                                 Var2("mem", i, j), TRUE),
                      cql_relation(Var("run", i), "hasPoolData",
                                   Var2("mem", i, j), FALSE, EmptyMap)>>
                SraFile(j, f) ==
                    <<cql_create("sra_file", f, Var2("sra_f", i, j), FALSE),
                      cql_relation(Var("run", i), "hasSRAFile",
                                   Var2("sra_f", i, j), FALSE, EmptyMap)>>
                CloudFile(j, f) ==
                    <<cql_create("cloud_file", f, Var2("cloud_f", i, j), TRUE),
                      cql_relation(Var("run", i), "hasCloudFile",
                                   Var2("cloud_f", i, j), FALSE, EmptyMap)>>
                bases == get_bases(run, n)
            IN  <<cql_create("run", r, Var("run", i), FALSE)>>
                \o (IF reads = <<>> THEN <<>>
                    ELSE IF ~has_reads
                    THEN (IF i < 1
                          THEN <<cql_create("read", [exp_pkg |-> n], "rd",
                                            FALSE)>>
                          ELSE <<>>)
                         \o cql_of_read_statistics(reads, Var("run", i), TRUE)
                    ELSE cql_of_read_statistics(reads, Var("run", i), FALSE))
                \o <<cql_relation("exp", "hasRun", Var("run", i), FALSE,
                                  EmptyMap)>>
                \o Join([k \in 1..Len(run.rpool) |-> Member(k - 1, run.rpool[k])])
                \o <<cql_create("run_attrib", get_run_attributes(n),
                                Var("run_att", i), FALSE),
                     cql_relation(Var("run", i), "hasRunAttribute",
                                  Var("run_att", i), FALSE, EmptyMap)>>
                \o Join([k \in 1..Len(get_SRA_files(run)) |-> SraFile(k - 1, get_SRA_files(run)[k])])
                \o Join([k \in 1..Len(get_cloud_files(run)) |-> CloudFile(k - 1, get_cloud_files(run)[k])])
                \o (IF DOMAIN bases # {}
                    THEN <<cql_create("bases", bases, Var("bas", i), FALSE),
                           cql_relation(Var("run", i), "hasBases",
                                        Var("bas", i), FALSE, EmptyMap)>>
                    ELSE <<>>)
    IN  Join([k \in 1..Len(runs) |-> Body(k - 1, runs[k])])

cql_of_experiment_package(rec, n) ==
    cql_of_experiment(rec, n)
    \o cql_of_submission(rec)
    \o cql_of_organization(rec)
    \o cql_of_study(rec)
    \o cql_of_samples(rec.sams)
    \o (IF rec.pool # <<>> THEN cql_of_pool(rec.pool, n) ELSE <<>>)
    \o cql_of_runs(rec.runs, n, rec.reads > 0 /\ rec.spd)

\* ---------------------------------------- Neo4jDatabase.unsafe_run_cql
\* The store executes the statements of one batch in order, in one
\* transaction; env binds the variables of the batch to nodes.
Matches(node, label, attributes) ==
    /\ node.label = label
    /\ \A k \in DOMAIN attributes :
           k \in DOMAIN node.attrs /\ node.attrs[k] = attributes[k]

NewNode(st, variable, label, attributes) ==
    [st EXCEPT !.nodes = Append(@, [label |-> label, attrs |-> attributes]),
               !.env = @ @@ (variable :> (Len(st.nodes) + 1))]

\* CREATE adds a node; MERGE binds the node of that label carrying the
\* given properties and adds one only when there is none.  A variable that
\* the batch has already declared makes the statement fail.
RunNode(st, s) ==
    LET hits == {i \in 1..Len(st.nodes) :
                    Matches(st.nodes[i], s.label, s.attrs)}
    IN  IF s.var \in DOMAIN st.env THEN [st EXCEPT !.ok = FALSE]
        ELSE IF s.tag = "MERGE" /\ hits # {}
        THEN [st EXCEPT !.env = @ @@ (s.var :> CHOOSE i \in hits :
                                                   \A j \in hits : i <= j)]
        ELSE NewNode(st, s.var, s.label, s.attrs)

\* a variable of a relationship pattern that no earlier statement
\* introduced stands for a new node without label or properties
Bind(st, variable) ==
    IF variable \in DOMAIN st.env THEN st
    ELSE NewNode(st, variable, "", EmptyMap)

\* CREATE adds a relationship; MERGE adds it only when the two nodes are
\* not yet related that way
RunRel(st, s) ==
    LET st2 == Bind(Bind(st, s.src), s.dst)
        e == [src |-> st2.env[s.src], rel |-> s.rel, dst |-> st2.env[s.dst],
              attrs |-> s.attrs]
        there == \E k \in 1..Len(st2.edges) :
                     /\ st2.edges[k].src = e.src
                     /\ st2.edges[k].rel = e.rel
                     /\ st2.edges[k].dst = e.dst
    IN  IF s.tag = "MERGE" /\ there THEN st2
        ELSE [st2 EXCEPT !.edges = Append(@, e)]

RECURSIVE RunStatements(_, _)
RunStatements(stmts, st) ==
    IF stmts = <<>> \/ ~st.ok THEN st
    ELSE RunStatements(Tail(stmts),
                       IF Head(stmts).kind = "node" THEN RunNode(st, Head(stmts))
                       ELSE RunRel(st, Head(stmts)))

unsafe_run_cql(stmts) ==
    RunStatements(stmts, [nodes |-> nodes, edges |-> edges,
                          env |-> [v \in {} |-> 0], ok |-> TRUE])

\* ------------------------------------------- LoadingDB._load_sra_data
\* The consumer's write of one record, with the record's content: the
\* statements are built for the package number db_counter and run in one
\* transaction; the counter advances when the transaction committed.
load_sra_data(rec) ==
    /\ Len(loaded) < MaxRecords
    /\ LET n == db_counter
           stmts == cql_of_experiment_package(rec, n)
           st == unsafe_run_cql(stmts)
       IN  /\ cql' = stmts
           /\ cql_has_reads' = (rec.reads > 0 /\ rec.spd)
           /\ IF st.ok
              THEN /\ nodes' = st.nodes
                   /\ edges' = st.edges
                   /\ db_counter' = DbChecker(db_counter)
                   /\ loaded' = Append(loaded, [rec |-> rec, n |-> n])
              ELSE UNCHANGED <<nodes, edges, db_counter, loaded>>
    /\ UNCHANGED <<mainV, flagV, queueV, producers_counter, parsers_counter,
                   maxThreadCount, poolQueue, pc, localV, guiV, faultV, logV,
                   ppV>>

\* ------------------------------------------------------ specifications
MainClean(C) ==
    \/ Main_CreateAsy
    \/ Main_Initial(C)
    \/ Main_StartDB
    \/ Main_StartParser0
    \/ Main_StartProducer
    \/ Main_StartParsers
    \/ Main_WaitForDone
    \/ Main_Emit

ConsumerClean ==
    \/ DB_TestEmpty
    \/ DB_TestPars
    \/ DB_CheckAbort
    \/ DB_Get
    \/ DB_Write

ProducerClean(w) ==
    \/ ID_CheckAbort(w)
    \/ ID_List(w)
    \/ ID_Put(w)
    \/ Checker_Load(w)
    \/ Checker_Store(w)
    \/ Checker_Test(w)

ParserClean(w) ==
    \/ Par_TestEmpty(w)
    \/ Par_TestProd(w)
    \/ Par_CheckAbort(w)
    \/ Par_Drain(w)
    \/ Par_Fetch(w)
    \/ Par_Put(w)
    \/ Checker_Load(w)
    \/ Checker_Store(w)
    \/ Checker_Test(w)

MainThread(C) == MainClean(C) \/ Main_InitialRaises
Consumer == ConsumerClean \/ DB_WriteRaises \/ HandleError(DB)
Producer(w) == ProducerClean(w) \/ ID_ListRaises(w) \/ HandleError(w)
Parser(w) == ParserClean(w) \/ Par_FetchRaises(w) \/ HandleError(w)

GuiAbort ==
    \/ Abort_Request
    \/ Abort_Step

\* runs in which no call raises and no abort is requested
NextClean ==
    \/ MainClean(MaxCount)
    \/ ConsumerClean
    \/ \E w \in Producers : ProducerClean(w)
    \/ \E w \in Parsers : ParserClean(w)

\* runs in which calls may raise, no abort is requested
NextFault ==
    \/ MainThread(MaxCount)
    \/ Consumer
    \/ \E w \in Producers : Producer(w)
    \/ \E w \in Parsers : Parser(w)

\* the same on the small result sets
NextFaultSmall ==
    \/ MainThread(SmallCount)
    \/ Consumer
    \/ \E w \in Producers : Producer(w)
    \/ \E w \in Parsers : Parser(w)

\* runs in which calls may raise and the user may request an abort
Next ==
    \/ NextFaultSmall
    \/ GuiAbort

CleanSpec == Init /\ [][NextClean]_vars
FaultSpec == Init /\ [][NextFault]_vars
Spec == Init /\ [][Next]_vars

\* the writes of one load alone, for every content of the records
MapInit == Init /\ maxThreadCount = MaxThreads
MapNext == \E rec \in Records : load_sra_data(rec)
MapSpec == MapInit /\ [][MapNext]_vars

\* the write of one record into the empty store, for every shape of record
WideNext == \E rec \in WideRecords : loaded = <<>> /\ load_sra_data(rec)
WideSpec == MapInit /\ [][WideNext]_vars

\* every started thread keeps running: the pool threads and the load thread
\* are OS threads, and every external call and write returns or raises
FairCleanSpec ==
    /\ CleanSpec
    /\ WF_vars(MainClean(MaxCount))
    /\ WF_vars(ConsumerClean)
    /\ \A w \in Producers : WF_vars(ProducerClean(w))
    /\ \A w \in Parsers : WF_vars(ParserClean(w))

FairFaultSpec ==
    /\ Init /\ [][NextFaultSmall]_vars
    /\ WF_vars(MainThread(SmallCount))
    /\ WF_vars(Consumer)
    /\ \A w \in Producers : WF_vars(Producer(w))
    /\ \A w \in Parsers : WF_vars(Parser(w))

\* ------------------------------------------------------------- claims
\* async_from_query has returned (waitForDone is over or Count was 0)
Returned == mainpc \in {"emit", "done"}

\* no call raised and no abort was requested so far
CleanRun == faults = 0 /\ ~abortRequested

\* number of writes of record r
TimesWritten(r) == Cardinality({k \in 1..Len(written) : written[k].rec = r})

\* C1: in a run with Count > 0, no fault and no abort, when the pipeline
\* has completed the record queue is empty and every record a parser put
\* on it has been written exactly once.
C1_AllPushedRecordsWritten ==
    (Returned /\ count > 0 /\ CleanRun) =>
        /\ db_queue = <<>>
        /\ \A r \in pushedRecs : TimesWritten(r) = 1

\* C2: in a run with Count > 0, no fault and no abort, when the pipeline
\* has completed the id queue is empty and every id a producer put on it
\* has been passed to exactly one fetch call.
C2_AllPushedIdsFetched ==
    (Returned /\ count > 0 /\ CleanRun) =>
        /\ id_queue = <<>>
        /\ \A i \in pushedIds : fetched[i] = 1


\* every runnable that was started has returned
AllExited == \A w \in Workers : pc[w] \in {"idle", "done"}

\* C3: in a run with Count > 0, no fault, no abort and a pool of at least
\* three threads, every worker eventually exits and async_from_query
\* returns with both stage flags set and the record queue empty.
C3_PipelineTerminates ==
    (count > 0 /\ maxThreadCount >= 3 /\ CleanRun) ~>
        (Returned /\ AllExited /\ prod /\ pars /\ db_queue = <<>>)

C6_NoWriteAfterParserFault ==
    \A k \in 1..Len(written) : ~written[k].afterFault

\* C6 amended: once handle_error has set the abort flag the consumer writes
\* at most one further record, the one whose abort check it had passed:
\* from its abort check with the flag set it leaves without writing.
C6_AtMostOneWriteAfterAbortSet ==
    /\ [](lateOps[DB] <= 1)
    /\ [][(event_abort /\ pc[DB] = "check_abort")
            => (written' = written /\ pc'[DB] \in {"check_abort", "done"})]_vars

C6_Witness ==
    /\ "par" \in faulted
    /\ lateOps[DB] = 1
    /\ \E k \in 1..Len(written) : written[k].afterAbort

\* C7: once a producer, a parser or the consumer raised and every worker
\* has left, abort flag, both stage flags and error are set; finished
\* carries true exactly when a call raised or an abort was requested, and a
\* load that reported false has written every record of the result set.
C7_FailureIffFaultOrAbort ==
    /\ (AllExited /\ faulted \cap {"id", "par", "db"} # {}) =>
           (event_abort /\ prod /\ pars /\ error)
    /\ (mainpc = "done") =>
           /\ finishedSig = <<(faults > 0 \/ abortRequested)>>
           /\ (finishedSig = <<FALSE>> => Len(written) = count)

\* C8: the k-th record written carries start_id + k (k = 0, 1, ...), and
\* db_counter is start_id plus the number of successful writes.
C8_SequenceNumbers ==
    /\ \A k \in 1..Len(written) : written[k].tag = start_id + (k - 1)
    /\ db_counter = start_id + Len(written)

C8_Witness ==
    /\ Len(written) = 2
    /\ written[1].tag = start_id
    /\ written[2].tag = start_id + 1

\* ------------------------------------------------- claims on the graph
NodesOf(label) == {i \in 1..Len(nodes) : nodes[i].label = label}

PkgNodes(label, p) ==
    {i \in NodesOf(label) :
        "exp_pkg" \in DOMAIN nodes[i].attrs /\ nodes[i].attrs.exp_pkg = p}

Related(a, rel, b) ==
    \E k \in 1..Len(edges) :
        edges[k].src = a /\ edges[k].rel = rel /\ edges[k].dst = b

Incoming(b) == {k \in 1..Len(edges) : edges[k].dst = b}

RunsLinked(p) ==
    \A r \in PkgNodes("run", p) :
        \E e \in PkgNodes("experiment", p) : Related(e, "hasRun", r)

OrgNodes(o) == {i \in NodesOf("organization") : nodes[i].attrs.name = o}

WithOrg(o) == {j \in 1..Len(loaded) : loaded[j].rec.org = o}

Introduced(k, v) ==
    \E j \in 1..(k - 1) : cql[j].kind = "node" /\ cql[j].var = v

\* C11: in the statements emitted for a record, both variables of every
\* relationship statement are introduced by an earlier node statement.
C11_RelationshipsUseIntroducedVariables ==
    \A k \in 1..Len(cql) :
        cql[k].kind = "rel" => Introduced(k, cql[k].src) /\ Introduced(k, cql[k].dst)

\* C12: every node statement the mapper emits with CREATE for a record
\* carries the exp_pkg of the record.
C12_CreatedNodesCarryExpPkg ==
    \A k \in 1..Len(cql) :
        (cql[k].kind = "node" /\ cql[k].tag = "CREATE")
            => /\ "exp_pkg" \in DOMAIN cql[k].attrs
               /\ \E j \in 1..Len(loaded) : cql[k].attrs.exp_pkg = loaded[j].n

-----------------------------------------------------------------------------
\* Property values as texts: a text is the sequence of its characters.

unknown == <<"u", "n", "k", "n", "o", "w", "n">>

colon == <<":">>

LowerOf ==
    [A |-> "a", B |-> "b", C |-> "c", D |-> "d", E |-> "e", F |-> "f", G
    |-> "g", H |-> "h", I |-> "i", J |-> "j", K |-> "k", L |-> "l", M |->
    "m", N |-> "n", O |-> "o", P |-> "p", Q |-> "q", R |-> "r", S |-> "s",
    T |-> "t", U |-> "u", V |-> "v", W |-> "w", X |-> "x", Y |-> "y", Z
    |-> "z"]

\* toLower of one character
LowerChar(c) == IF c \in DOMAIN LowerOf THEN LowerOf[c] ELSE c

\* Cypher toLower
toLower(t) == [i \in 1..Len(t) |-> LowerChar(t[i])]

\* apoc.text.indexOf(t, c): the 0-based index of the first c, -1 without one
indexOf(t, c) ==
    IF \E i \in 1..Len(t) : t[i] = c
    THEN (CHOOSE i \in 1..Len(t) : t[i] = c /\ \A j \in 1..(i - 1) : t[j] # c) - 1
    ELSE -1

RECURSIVE LStrip(_)
LStrip(t) == IF t # <<>> /\ Head(t) = " " THEN LStrip(Tail(t)) ELSE t

RECURSIVE RStrip(_)
RStrip(t) == IF t # <<>> /\ t[Len(t)] = " " THEN RStrip(SubSeq(t, 1, Len(t) - 1)) ELSE t

\* Cypher trim
trim(t) == RStrip(LStrip(t))

\* position i of t is a space of a run of spaces that touches a colon
BesideColon(t, i) ==
    /\ t[i] = " "
    /\ \E j \in 1..Len(t) :
        /\ t[j] = ":"
        /\ \A k \in (IF i < j THEN i..(j - 1) ELSE (j + 1)..i) : t[k] = " "

RECURSIVE DropBesideColon(_, _)
DropBesideColon(t, i) ==
    IF i > Len(t) THEN <<>>
    ELSE (IF BesideColon(t, i) THEN <<>> ELSE <<t[i]>>) \o DropBesideColon(t, i + 1)

\* apoc.text.replace(t, ' *: *', ':')
replace_colon_spaces(t) == DropBesideColon(t, 1)

-----------------------------------------------------------------------------
\* Properties of a node.

SetProp(attrs, key, value) ==
    [x \in DOMAIN attrs \cup {key} |-> IF x = key THEN value ELSE attrs[x]]

RemoveProps(attrs, keys) == [x \in DOMAIN attrs \ keys |-> attrs[x]]

Has(n, key) == key \in DOMAIN n.attrs

\* the properties whose values the model keeps as texts
TextKeys ==
    {"geo_loc_name", "collection_date", "published", "date", "SubmissionDate",
     "SeqReleaseDate", "AsmUpdateDate", "AsmReleaseDate_RefSeq",
     "AsmReleaseDate_GenBank", "LastUpdateDate", "alias", "sra_alias",
     "EXTERNAL_ID", "strain", "sra_strian", "STRAIN", "Strain",
     "isolation-source", "isolation source", "isolation_source",
     "collection date", "culture-collection", "culture_collection",
     "environment_biome", "biome", "env_biome", "material", "env_material",
     "Sample Name", "sample_name", "Isolate", "isolate"}

-----------------------------------------------------------------------------
\* PostProcessingDB.fix_geo_name: four statements, run one after the other.

\* the value statement k of fix_geo_name leaves in a geo_loc_name holding v
geo_statement(k, v) ==
    CASE k = 1 -> trim(replace_colon_spaces(v))
      [] k = 2 -> IF indexOf(v, ":") = -1 THEN v \o colon \o unknown ELSE v
      [] k = 3 -> IF indexOf(v, ":") = 0 THEN unknown \o colon \o v ELSE v
      [] k = 4 -> IF v = <<>> THEN unknown \o colon \o unknown ELSE v

\* statement k on the graph: a node without the property matches none of the
\* four conditions
run_geo_statement(k, ns) ==
    [i \in 1..Len(ns) |->
        IF ns[i].label = "sample_attrib" /\ Has(ns[i], "geo_loc_name")
        THEN [ns[i] EXCEPT !.attrs.geo_loc_name = geo_statement(k, @)]
        ELSE ns[i]]

fix_geo_name(ns) ==
    run_geo_statement(4, run_geo_statement(3, run_geo_statement(2, run_geo_statement(1, ns))))

\* PostProcessingDB.set_lowercase: every text property, except on file nodes
set_lowercase(ns) ==
    [i \in 1..Len(ns) |->
        IF ns[i].label \notin {"sra_file", "cloud_file"}
        THEN [ns[i] EXCEPT !.attrs =
                [x \in DOMAIN @ |-> IF x \in TextKeys THEN toLower(@[x]) ELSE @[x]]]
        ELSE ns[i]]

\* PostProcessingDB.check_geo_name: no value without a colon or starting with one
check_geo_name(ns) ==
    \A i \in 1..Len(ns) :
        (ns[i].label = "sample_attrib" /\ Has(ns[i], "geo_loc_name"))
            => indexOf(ns[i].attrs.geo_loc_name, ":") \notin {-1, 0}

-----------------------------------------------------------------------------
\* helper_functions.CleanDate.  A call that raises returns ok = FALSE.

\* datetime.date.today().year
now == 2026

Digit == ("0" :> 0) @@ ("1" :> 1) @@ ("2" :> 2) @@ ("3" :> 3) @@ ("4" :> 4) @@ ("5" :> 5) @@ ("6" :> 6) @@ ("7" :> 7) @@ ("8" :> 8) @@ ("9" :> 9)

isdigit(t) == t # <<>> /\ \A i \in 1..Len(t) : t[i] \in DOMAIN Digit

RECURSIVE Value(_)
Value(t) == IF t = <<>> THEN 0 ELSE 10 * Value(SubSeq(t, 1, Len(t) - 1)) + Digit[t[Len(t)]]

\* the number written by the digits u, negated after a sign
Signed(neg, u) ==
    IF isdigit(u)
    THEN [ok |-> TRUE, val |-> IF neg THEN 0 - Value(u) ELSE Value(u)]
    ELSE [ok |-> FALSE, val |-> 0]

Unsigned(s) == IF s # <<>> /\ Head(s) = "-" THEN Signed(TRUE, Tail(s)) ELSE Signed(FALSE, s)

\* int(t): blanks around the number and a sign before it are accepted
int(t) == Unsigned(trim(t))

RECURSIVE Numeral(_)
Numeral(n) ==
    IF n < 10 THEN <<CHOOSE c \in DOMAIN Digit : Digit[c] = n>>
    ELSE Numeral(n \div 10) \o Numeral(n % 10)

\* str(n)
str(n) == IF n < 0 THEN <<"-">> \o Numeral(0 - n) ELSE Numeral(n)

\* format n with :02d
Pad2(n) == IF n < 10 THEN <<"0">> \o Numeral(n) ELSE Numeral(n)

Count(t, c) == Cardinality({i \in 1..Len(t) : t[i] = c})

\* t.split(c)
RECURSIVE split(_, _)
split(t, c) ==
    IF indexOf(t, c) = -1 THEN <<t>>
    ELSE <<SubSeq(t, 1, indexOf(t, c))>> \o split(SubSeq(t, indexOf(t, c) + 2, Len(t)), c)

month_lookup ==
    (<<"j", "a", "n">> :> 1)
    @@ (<<"f", "e", "b">> :> 2)
    @@ (<<"m", "a", "r">> :> 3)
    @@ (<<"a", "p", "r">> :> 4)
    @@ (<<"m", "a", "y">> :> 5)
    @@ (<<"j", "u", "n", "e">> :> 6)
    @@ (<<"j", "u", "l", "y">> :> 7)
    @@ (<<"a", "u", "g">> :> 8)
    @@ (<<"s", "e", "p", "t">> :> 9)
    @@ (<<"o", "c", "t">> :> 10)
    @@ (<<"n", "o", "v">> :> 11)
    @@ (<<"d", "e", "c">> :> 12)
    @@ (<<"j", "a", "n", "u", "a", "r", "y">> :> 1)
    @@ (<<"f", "e", "b", "r", "u", "a", "r", "y">> :> 2)
    @@ (<<"m", "a", "r", "c", "h">> :> 3)
    @@ (<<"a", "p", "r", "i", "l">> :> 4)
    @@ (<<"a", "u", "g", "u", "s", "t">> :> 8)
    @@ (<<"s", "e", "p", "t", "e", "m", "b", "e", "r">> :> 9)
    @@ (<<"o", "c", "t", "o", "b", "e", "r">> :> 10)
    @@ (<<"n", "o", "v", "e", "m", "b", "e", "r">> :> 11)
    @@ (<<"d", "e", "c", "e", "m", "b", "e", "r">> :> 12)
    @@ (<<"s", "e", "p">> :> 9)
    @@ (<<"j", "u", "n">> :> 6)
    @@ (<<"j", "u", "l">> :> 7)

Raised == [ok |-> FALSE, val |-> 0]

Ok(v) == [ok |-> TRUE, val |-> v]

\* len(str(n))
StrLen(n) ==
    IF n < 0 THEN (IF n > -10 THEN 2 ELSE IF n > -100 THEN 3 ELSE IF n > -1000 THEN 4 ELSE 5)
    ELSE IF n < 10 THEN 1 ELSE IF n < 100 THEN 2 ELSE IF n < 1000 THEN 3
    ELSE IF n < 10000 THEN 4 ELSE 5

\* the year for the number y of a given length, in range or not
YearOf(y, length, inrange) ==
    IF ~y.ok THEN Raised
    ELSE IF length = 4 THEN (IF inrange THEN Ok(y.val) ELSE Raised)
    ELSE IF length = 1 THEN Ok(2000 + y.val)
    ELSE Raised

year_unchecked(y) == YearOf(y, StrLen(y.val), TRUE)

fix_year_unchecked(year) == year_unchecked(int(year))

\* a year of two characters raises at the comparison of the int with
\* now_short, which is a str
year_checked(y) == YearOf(y, StrLen(y.val), ~(y.val > now \/ y.val < 1900))

fix_year(year) == year_checked(int(year))

\* re.match('[^.]*\.$', month)
EndsWithOnlyDot(month) == Count(month, ".") = 1 /\ month[Len(month)] = "."

\* self.month_lookup[month.lower()]
Lookup(name) == IF name \in DOMAIN month_lookup THEN Ok(month_lookup[name]) ELSE Raised

\* a number outside lo..hi raises
Within(n, lo, hi) == IF n.ok /\ (n.val > hi \/ n.val < lo) THEN Raised ELSE n

fix_month(month) ==
    Within(IF isdigit(month) THEN Ok(Value(month))
           ELSE Lookup(toLower(IF EndsWithOnlyDot(month) THEN split(month, ".")[1]
                               ELSE month)),
           1, 12)

fix_day(day) == Within(int(day), 1, 31)

NoDate == [ok |-> FALSE, day |-> 0, month |-> 0, year |-> 0]

\* the tuple day, month, year; raises when one of the three calls raised
DMY(day, month, year) ==
    IF day.ok /\ month.ok /\ year.ok
    THEN [ok |-> TRUE, day |-> day.val, month |-> month.val, year |-> year.val]
    ELSE NoDate

\* try: first, except: second
Try(first, second) == IF first.ok THEN first ELSE second

m_y(m, y) ==
    Try(DMY(Ok(1), fix_month(m), fix_year(y)),
        DMY(Ok(1), fix_month(y), fix_year(m)))

m_y_of(parts) == m_y(parts[1], parts[2])

_get_date_m_y(date, delim) == m_y_of(split(date, delim))

d_m_y(dd, m, y) ==
    Try(DMY(fix_day(dd), fix_month(m), fix_year(y)),
        Try(DMY(fix_day(m), fix_month(dd), fix_year(y)),
            DMY(fix_day(y), fix_month(m), fix_year(dd))))

d_m_y_of(parts) == d_m_y(parts[1], parts[2], parts[3])

_get_date_d_m_y(date, delim) == d_m_y_of(split(date, delim))

\* f'{year}-{month:02d}-{day:02d}'
Formatted(t) ==
    IF t.ok THEN Ok(str(t.year) \o <<"-">> \o Pad2(t.month) \o <<"-">> \o Pad2(t.day))
    ELSE Raised

\* the character class [0..9] holds the characters 0, . and 9
InClass09(c) == c \in {"0", ".", "9"}

At(t, i) == IF i \in 1..Len(t) THEN t[i] ELSE ""

IsD(t, i) == At(t, i) \in DOMAIN Digit

\* '^[^:]* {1}[0..9]{2}:{1}[0..9]{2}[^:]*$'
TimeAround(date, i) ==
    /\ At(date, i - 3) = " "
    /\ InClass09(At(date, i - 2)) /\ InClass09(At(date, i - 1))
    /\ InClass09(At(date, i + 1)) /\ InClass09(At(date, i + 2))

MatchTimeAfter(date) == Count(date, ":") = 1 /\ TimeAround(date, indexOf(date, ":") + 1)

\* '^[0..9]{2}:{1}[0..9]{2} {1}[^:]*$'
MatchTimeBefore(date) ==
    /\ Count(date, ":") = 1
    /\ InClass09(At(date, 1)) /\ InClass09(At(date, 2))
    /\ At(date, 3) = ":"
    /\ InClass09(At(date, 4)) /\ InClass09(At(date, 5))
    /\ At(date, 6) = " "

\* \d{2}:\d{2}:\d{2} from position i
ClockAt(date, i) ==
    /\ IsD(date, i) /\ IsD(date, i + 1) /\ At(date, i + 2) = ":"
    /\ IsD(date, i + 3) /\ IsD(date, i + 4) /\ At(date, i + 5) = ":"
    /\ IsD(date, i + 6) /\ IsD(date, i + 7)

\* '^.* {1}\d{2}:\d{2}:\d{2}.*$'
MatchClockAfter(date) == \E i \in 1..Len(date) : date[i] = " " /\ ClockAt(date, i + 1)

\* '^\d{2}:\d{2}:\d{2} {1}.*$'
MatchClockBefore(date) == ClockAt(date, 1) /\ At(date, 9) = " "

\* f[0:-3]
DropLast3(f) == SubSeq(f, 1, Len(f) - 3)

\* t[3:]
DropFirst3(t) == SubSeq(t, 4, Len(t))

\* '^[^.]*\.{1}[^.]*.{1}[^.]*$': one dot, one more character of any kind, and
\* no dot elsewhere
MatchTwoDots(date) ==
    \/ Count(date, ".") = 2
    \/ Count(date, ".") = 1 /\ Len(date) - 1 > indexOf(date, ".")

\* the branch of fix_date that the patterns select, tried in this order
Branch(date) ==
    IF MatchTimeAfter(date) THEN "time_after"
    ELSE IF MatchTimeBefore(date) THEN "time_before"
    ELSE IF MatchClockAfter(date) THEN "clock_after"
    ELSE IF MatchClockBefore(date) THEN "clock_before"
    ELSE IF Count(date, "/") = 1 THEN "one_slash"
    ELSE IF Count(date, "/") = 2 THEN "two_slashes"
    ELSE IF Count(date, "-") = 1 THEN "one_dash"
    ELSE IF Count(date, "-") = 2 THEN "two_dashes"
    ELSE IF Count(date, ".") = 1 THEN "one_dot"
    ELSE IF MatchTwoDots(date) THEN "two_dots"
    ELSE "none"

\* the date a branch hands to fix_date again; f, m, t = date.split(':')
\* raises unless there are three parts
Again(branch, date, parts) ==
    CASE branch = "time_after" -> Ok(DropLast3(parts[1]))
      [] branch = "time_before" -> Ok(DropFirst3(parts[2]))
      [] branch = "clock_after" -> IF Len(parts) = 3 THEN Ok(DropLast3(parts[1])) ELSE Raised
      [] branch = "clock_before" -> IF Len(parts) = 3 THEN Ok(DropFirst3(parts[3])) ELSE Raised

\* the delimiter of a branch that splits the date into its fields
Delim(branch) ==
    CASE branch \in {"one_slash", "two_slashes"} -> "/"
      [] branch \in {"one_dash", "two_dashes"} -> "-"
      [] branch \in {"one_dot", "two_dots"} -> "."

Fields(branch, parts) ==
    IF branch \in {"one_slash", "one_dash", "one_dot"} THEN m_y_of(parts) ELSE d_m_y_of(parts)

RECURSIVE fix_date(_)
RECURSIVE fix_branch(_, _)
RECURSIVE fix_again(_)
RECURSIVE fix_fields(_, _)

fix_again(date) == IF date.ok THEN fix_date(date.val) ELSE Raised

\* one '/' between two parts of the same length: the second part is the date
fix_fields(branch, parts) ==
    IF branch = "one_slash" /\ Len(parts[1]) = Len(parts[2]) THEN fix_date(parts[2])
    ELSE Formatted(Fields(branch, parts))

fix_branch(branch, date) ==
    IF branch \in {"time_after", "time_before", "clock_after", "clock_before"}
    THEN fix_again(Again(branch, date, split(date, ":")))
    ELSE IF branch = "none"
    THEN IF isdigit(date) THEN Formatted(DMY(Ok(1), Ok(1), fix_year(date))) ELSE Ok(unknown)
    ELSE fix_fields(branch, split(date, Delim(branch)))

fix_date(date) == fix_branch(Branch(date), date)

\* except: d = 'unknown'
Caught(r) == IF r.ok THEN r.val ELSE unknown

safe_fix_date(date) == Caught(fix_date(date))

\* PostProcessingDB.__init__: dates_to_fix
dates_to_fix ==
    [sample_attrib |-> {"collection_date"},
     assembly |-> {"SubmissionDate", "SeqReleaseDate", "AsmUpdateDate",
                   "AsmReleaseDate_RefSeq", "AsmReleaseDate_GenBank", "LastUpdateDate"},
     run |-> {"published"},
     sra_file |-> {"date"}]

\* PostProcessingDB.clean_dates
\* the properties of a node with their dates cleaned; unknown for a date
\* that could not be cleaned
Cleaned(n, props) ==
    [x \in DOMAIN n.attrs |-> IF x \in props THEN safe_fix_date(n.attrs[x]) ELSE n.attrs[x]]

\* cql_missing removes the property, cql_cleaned sets it
Stored(n, props, cleaned) ==
    [n EXCEPT !.attrs =
        [x \in {y \in DOMAIN cleaned : ~(y \in props /\ cleaned[y] = unknown)} |-> cleaned[x]]]

clean_node(n, props) == Stored(n, props, Cleaned(n, props))

clean_dates(ns) ==
    [i \in 1..Len(ns) |->
        IF ns[i].label \in DOMAIN dates_to_fix
        THEN clean_node(ns[i], DOMAIN ns[i].attrs \cap dates_to_fix[ns[i].label])
        ELSE ns[i]]

-----------------------------------------------------------------------------
\* The repair methods of PostProcessingDB on a graph g = [nodes, edges].  A
\* property the load wrote holds a text; ints names the properties of a node
\* that hold an integer.

Graph(ns, es) == [nodes |-> ns, edges |-> es]

IntsOf(n) == IF "ints" \in DOMAIN n THEN n.ints ELSE {}

\* (a)--(b)
Connected(g, a, b) ==
    \E k \in 1..Len(g.edges) :
        \/ g.edges[k].src = a /\ g.edges[k].dst = b
        \/ g.edges[k].src = b /\ g.edges[k].dst = a

\* a.key = b.key: an absent property equals nothing, a text no integer
SameProp(a, b, key) ==
    /\ Has(a, key) /\ Has(b, key)
    /\ (key \in IntsOf(a)) = (key \in IntsOf(b))
    /\ a.attrs[key] = b.attrs[key]

\* match (rd:read), (x:label) where not (x)--(rd) and x.exp_pkg = rd.exp_pkg
Unrelated(g, label) ==
    {p \in (1..Len(g.nodes)) \X (1..Len(g.nodes)) :
        /\ g.nodes[p[1]].label = label
        /\ g.nodes[p[2]].label = "read"
        /\ SameProp(g.nodes[p[1]], g.nodes[p[2]], "exp_pkg")
        /\ ~Connected(g, p[1], p[2])}

First(pairs) ==
    CHOOSE p \in pairs : \A q \in pairs : p[1] < q[1] \/ (p[1] = q[1] /\ p[2] <= q[2])

\* create (a)-[:rel]->(b) for every pair
RECURSIVE CreateEdges(_, _, _)
CreateEdges(es, pairs, rel) ==
    IF pairs = {} THEN es
    ELSE CreateEdges(Append(es, [src |-> First(pairs)[1], rel |-> rel,
                                 dst |-> First(pairs)[2], attrs |-> EmptyMap]),
                     pairs \ {First(pairs)}, rel)

create_missing_relationships(g) ==
    LET g1 == Graph(g.nodes, CreateEdges(g.edges, Unrelated(g, "design"), "hasRead"))
    IN  Graph(g1.nodes, CreateEdges(g1.edges, Unrelated(g1, "run"), "readStatistics"))

\* the properties set_integers converts on a node of the label
IntKeys(label) ==
    {"exp_pkg"}
    \cup (IF label = "bases" THEN {"total_bases", "A", "C", "T", "G", "N", "count"} ELSE {})
    \cup (IF label = "assembly_stats" THEN {"value"} ELSE {})

\* apoc.convert.toInteger of the property: null for a text that is no number
toInteger(n, key) ==
    IF key \in IntsOf(n) THEN [ok |-> TRUE, val |-> n.attrs[key]] ELSE int(n.attrs[key])

\* setting a property to null removes it
set_integers_on(n) ==
    LET conv == IntKeys(n.label) \cap DOMAIN n.attrs
        nulls == {key \in conv : ~toInteger(n, key).ok}
    IN  [label |-> n.label,
         attrs |-> [key \in DOMAIN n.attrs \ nulls |->
                      IF key \in conv THEN toInteger(n, key).val ELSE n.attrs[key]],
         ints |-> (IntsOf(n) \ nulls) \cup (conv \ nulls)]

set_integers(g) == Graph([i \in 1..Len(g.nodes) |-> set_integers_on(g.nodes[i])], g.edges)

\* toFloat(n.key) is a number
IsNumber(n, key) == Has(n, key) /\ toInteger(n, key).ok

\* (toFloat(n.G)+toFloat(n.C))/toFloat(n.count), null when one of them is null
set_gc_ratio_on(n) ==
    IF IsNumber(n, "G") /\ IsNumber(n, "C") /\ IsNumber(n, "count")
    THEN [n EXCEPT !.attrs = SetProp(@, "GC_Ratio",
            [num |-> toInteger(n, "G").val + toInteger(n, "C").val,
             den |-> toInteger(n, "count").val])]
    ELSE [n EXCEPT !.attrs = RemoveProps(@, {"GC_Ratio"})]

set_gc_ratio(g) ==
    Graph([i \in 1..Len(g.nodes) |->
             IF g.nodes[i].label = "bases" THEN set_gc_ratio_on(g.nodes[i]) ELSE g.nodes[i]],
          g.edges)

delete_list ==
    {<<"m", "i", "s", "s", "i", "n", "g">>,
     <<"n", "o", "t", " ", "a", "p", "p", "l", "i", "c", "a", "b", "l", "e">>,
     <<"n", "/", "a">>,
     <<"n", "o", "t", " ", "a", "v", "a", "i", "l", "a", "b", "l", "e">>,
     <<"n", "a">>,
     <<"n", "o", "t", " ", "c", "o", "l", "l", "e", "c", "t", "e", "d">>,
     <<"u", "n", "k", "n", "o", "w", "n">>}

\* the text properties of a node whose value is in delete_list
Unknowns(n) == {key \in DOMAIN n.attrs \cap TextKeys : n.attrs[key] \in delete_list}

delete_unknowns(g) ==
    Graph([i \in 1..Len(g.nodes) |->
             [g.nodes[i] EXCEPT !.attrs = RemoveProps(@, Unknowns(g.nodes[i]))]],
          g.edges)

similar_list ==
    <<<<"sample_attrib", "isolation-source", "isolation_source">>,
      <<"sample_attrib", "isolation source", "isolation_source">>,
      <<"sample_attrib", "STRAIN", "strain">>,
      <<"sample_attrib", "Strain", "strain">>,
      <<"sample_attrib", "collection date", "collection_date">>,
      <<"sample_attrib", "culture-collection", "culture_collection">>,
      <<"sample_attrib", "environment_biome", "env_biome">>,
      <<"sample_attrib", "biome", "env_biome">>,
      <<"sample_attrib", "material", "env_material">>,
      <<"sample_attrib", "Sample Name", "sample_name">>,
      <<"sample_attrib", "Isolate", "isolate">>>>

\* match (n:attrib) where n.old =~ '.*' set n.new = n.old remove n.old
replace_one(n, sim) ==
    IF n.label = sim[1] /\ Has(n, sim[2])
    THEN [n EXCEPT !.attrs = RemoveProps(SetProp(@, sim[3], n.attrs[sim[2]]), {sim[2]})]
    ELSE n

RECURSIVE replace_from(_, _)
replace_from(ns, k) ==
    IF k > Len(similar_list) THEN ns
    ELSE replace_from([i \in 1..Len(ns) |-> replace_one(ns[i], similar_list[k])], k + 1)

replace_similar(g) == Graph(replace_from(g.nodes, 1), g.edges)

\* ------------------------------------------------ the assembly enrichment
\* match (stu:study)--(sam:sample)--(satt:sample_attrib)
\* where sam.EXTERNAL_ID = sample
Rows(g, sample) ==
    {r \in (1..Len(g.nodes)) \X (1..Len(g.nodes)) \X (1..Len(g.nodes)) :
        /\ g.nodes[r[1]].label = "study"
        /\ g.nodes[r[2]].label = "sample"
        /\ g.nodes[r[3]].label = "sample_attrib"
        /\ Connected(g, r[1], r[2])
        /\ Connected(g, r[2], r[3])
        /\ Has(g.nodes[r[2]], "EXTERNAL_ID")
        /\ g.nodes[r[2]].attrs.EXTERNAL_ID = sample}

\* match['stu']['alias'] or match['satt']['strain'] of a node without it
LookupRaises(g, dd) ==
    \E r \in Rows(g, dd.sample) :
        ~Has(g.nodes[r[1]], "alias") \/ ~Has(g.nodes[r[3]], "strain")

replace_proj(g, dd) ==
    IF \A r \in Rows(g, dd.sample) : g.nodes[r[1]].attrs.alias # dd.project
    THEN dd.project ELSE <<>>

replace_strain(g, dd) ==
    IF \A r \in Rows(g, dd.sample) : g.nodes[r[3]].attrs.strain # dd.strain
    THEN dd.strain ELSE <<>>

\* _cql_replace: an empty replacement is left out
_cql_replace(g, sample, proj, strain) ==
    LET rows == Rows(g, sample)
    IN  Graph([i \in 1..Len(g.nodes) |->
                 IF proj # <<>> /\ \E r \in rows : r[1] = i
                 THEN [g.nodes[i] EXCEPT !.attrs =
                         SetProp(SetProp(@, "sra_alias", g.nodes[i].attrs.alias), "alias", proj)]
                 ELSE IF strain # <<>> /\ \E r \in rows : r[3] = i
                 THEN [g.nodes[i] EXCEPT !.attrs =
                         SetProp(SetProp(@, "sra_strian", g.nodes[i].attrs.strain), "strain", strain)]
                 ELSE g.nodes[i]],
              g.edges)

FirstRow(rows) ==
    CHOOSE r \in rows : \A q \in rows :
        \/ r[1] < q[1]
        \/ r[1] = q[1] /\ r[2] < q[2]
        \/ r[1] = q[1] /\ r[2] = q[2] /\ r[3] <= q[3]

\* _cql_assembly for one matched row: the assembly, its stats and the
\* relationships of the study and of the sample to it
create_assembly(g, r, stats, attributes) ==
    LET ably == Len(g.nodes) + 1
    IN  Graph(g.nodes
                \o <<[label |-> "assembly", attrs |-> attributes, ints |-> {}]>>
                \o [z \in 1..Len(stats) |->
                      [label |-> "assembly_stats", attrs |-> stats[z], ints |-> {}]],
              g.edges
                \o [z \in 1..Len(stats) |->
                      [src |-> ably, rel |-> "hasStats", dst |-> ably + z, attrs |-> EmptyMap]]
                \o <<[src |-> r[1], rel |-> "hasAssembly", dst |-> ably, attrs |-> EmptyMap],
                     [src |-> r[2], rel |-> "hasAssembly", dst |-> ably, attrs |-> EmptyMap]>>)

RECURSIVE create_assemblies(_, _, _, _)
create_assemblies(g, rows, stats, attributes) ==
    IF rows = {} THEN g
    ELSE create_assemblies(create_assembly(g, FirstRow(rows), stats, attributes),
                           rows \ {FirstRow(rows)}, stats, attributes)

\* _cql_assembly_data: the rows whose study has the alias of the project
_cql_assembly_data(g, project, sample, stats, attributes) ==
    create_assemblies(g,
        {r \in Rows(g, sample) :
            Has(g.nodes[r[1]], "alias") /\ g.nodes[r[1]].attrs.alias = project},
        stats, attributes)

_post_process_assembly_data(g, dd) ==
    LET g1 == IF replace_proj(g, dd) # <<>> \/ replace_strain(g, dd) # <<>>
              THEN _cql_replace(g, dd.sample, replace_proj(g, dd), replace_strain(g, dd))
              ELSE g
    IN  _cql_assembly_data(g1, dd.project, dd.sample, dd.stats, dd.attributes)

\* the consumer of a lookup in which no call fails takes the results in
\* order; when it raises on one, the lookup is aborted and returns
RECURSIVE consume(_, _)
consume(g, results) ==
    IF results = <<>> \/ LookupRaises(g, Head(results)) THEN g
    ELSE consume(_post_process_assembly_data(g, Head(results)), Tail(results))

set_assembly_data(g) == consume(g, assemblies)

\* --------------------------------------------------------------- checks
check_relationships(g) == Unrelated(g, "design") = {} /\ Unrelated(g, "run") = {}

\* all([isinstance(j, int) for j in i if j]): an empty text is skipped
check_integers(g) ==
    \A i \in 1..Len(g.nodes) :
        \A key \in IntKeys(g.nodes[i].label) \cap DOMAIN g.nodes[i].attrs :
            key \in IntsOf(g.nodes[i]) \/ g.nodes[i].attrs[key] = <<>>

check_gc_ratios(g) ==
    \A i \in 1..Len(g.nodes) : g.nodes[i].label = "bases" => Has(g.nodes[i], "GC_Ratio")

check_delete_unknowns(g) == \A i \in 1..Len(g.nodes) : Unknowns(g.nodes[i]) = {}

check_replace_similar(g) ==
    \A k \in 1..Len(similar_list) : \A i \in 1..Len(g.nodes) :
        ~(g.nodes[i].label = similar_list[k][1] /\ Has(g.nodes[i], similar_list[k][2]))

check_db_status(g) ==
    /\ check_relationships(g)
    /\ check_integers(g)
    /\ check_gc_ratios(g)
    /\ check_delete_unknowns(g)
    /\ check_replace_similar(g)
    /\ check_geo_name(g.nodes)

\* the repair methods in the order of PostProcessingDB.run
Steps ==
    <<"create_missing_relationships", "set_assembly_data", "set_integers",
      "set_gc_ratio", "set_lowercase", "delete_unknowns", "replace_similar",
      "fix_geo_name", "clean_dates">>

Methods == {Steps[k] : k \in 1..Len(Steps)}

Apply(m, g) ==
    CASE m = "create_missing_relationships" -> create_missing_relationships(g)
      [] m = "set_assembly_data" -> set_assembly_data(g)
      [] m = "set_integers" -> set_integers(g)
      [] m = "set_gc_ratio" -> set_gc_ratio(g)
      [] m = "set_lowercase" -> Graph(set_lowercase(g.nodes), g.edges)
      [] m = "delete_unknowns" -> delete_unknowns(g)
      [] m = "replace_similar" -> replace_similar(g)
      [] m = "fix_geo_name" -> Graph(fix_geo_name(g.nodes), g.edges)
      [] m = "clean_dates" -> Graph(clean_dates(g.nodes), g.edges)

\* the statements of a method have left the graph g in the store
StoreBecomes(g) == nodes' = g.nodes /\ edges' = g.edges

\* one repair method called on the store and returning
Call(m) ==
    /\ pp_pc = "idle"
    /\ Len(pp_log) < MaxCalls
    /\ StoreBecomes(Apply(m, Graph(nodes, edges)))
    /\ pp_log' = Append(pp_log, m)
    /\ UNCHANGED <<pipeVars, cql, cql_has_reads, loaded, pp_pc, pp_finished,
                   pp_raised, assemblies, snaps>>

\* ----------------------------------------------------- PostProcessingDB.run
StepIndex(m) == CHOOSE k \in 1..Len(Steps) : Steps[k] = m

\* the thread enters run
PP_Run ==
    /\ pp_pc = "idle"
    /\ Len(pp_finished) < MaxPasses
    /\ pp_pc' = Steps[1]
    /\ UNCHANGED <<pipeVars, graphV, pp_finished, pp_log, pp_raised, assemblies, snaps>>

\* the method at pp_pc returns; after the last one, finished.emit(True)
PP_Step ==
    /\ pp_pc \in Methods
    /\ StoreBecomes(Apply(pp_pc, Graph(nodes, edges)))
    /\ pp_log' = Append(pp_log, pp_pc)
    /\ IF StepIndex(pp_pc) < Len(Steps)
       THEN /\ pp_pc' = Steps[StepIndex(pp_pc) + 1]
            /\ UNCHANGED <<pp_finished, snaps>>
       ELSE /\ pp_pc' = "idle"
            /\ pp_finished' = Append(pp_finished, TRUE)
            /\ snaps' = Append(snaps, Graph(nodes', edges'))
    /\ UNCHANGED <<pipeVars, cql, cql_has_reads, loaded, pp_raised, assemblies>>

\* a statement of the method at pp_pc fails in the store: unsafe_run_cql,
\* get_data and batch_run_cql let the exception through to the except branch
\* of run, which logs it and emits finished(False)
PP_StepRaises ==
    /\ pp_pc \in Methods
    /\ pp_raised = {}
    /\ pp_raised' = {pp_pc}
    /\ pp_pc' = "idle"
    /\ pp_finished' = Append(pp_finished, FALSE)
    /\ snaps' = Append(snaps, Graph(nodes, edges))
    /\ UNCHANGED <<pipeVars, graphV, pp_log, assemblies>>

GeoAlphabet == {" ", ":", "U", "n"}

Texts(alphabet, n) == UNION {[1..k -> alphabet] : k \in 0..n}

GeoExample == <<" ", " ", "U", "S", "A", " ", ":", " ", "N", "Y", "C", " ">>

GeoTexts == Texts(GeoAlphabet, MaxText) \cup {GeoExample}

\* a store holding one sample_attrib node with a geo_loc_name
GeoInit ==
    /\ InitPipeline
    /\ maxThreadCount = MaxThreads
    /\ \E v \in GeoTexts :
        nodes = <<[label |-> "sample_attrib", attrs |-> [geo_loc_name |-> v]]>>
    /\ edges = <<>>
    /\ assemblies = <<>>
    /\ snaps = <<[nodes |-> nodes, edges |-> edges]>>

GeoNext == Call("fix_geo_name") \/ Call("set_lowercase")

GeoSpec == GeoInit /\ [][GeoNext]_vars

GeoIn == snaps[1].nodes[1].attrs.geo_loc_name

GeoOut == nodes[1].attrs.geo_loc_name

\* C17: fix_geo_name followed by lowercasing maps "  USA : NYC " to "usa:nyc",
\* a value without a colon to the value followed by ":unknown", and the empty
\* string to "unknown:unknown".
C17_GeoNormalizerExamples ==
    pp_log = <<"fix_geo_name", "set_lowercase">> =>
        /\ GeoIn = GeoExample => GeoOut = <<"u", "s", "a", ":", "n", "y", "c">>
        /\ indexOf(GeoIn, ":") = -1 => GeoOut = toLower(GeoIn) \o colon \o unknown
        /\ GeoIn = <<>> => GeoOut = unknown \o colon \o unknown

Colons(t) == Cardinality({i \in 1..Len(t) : t[i] = ":"})

\* <country>:<location>
CountryLocation(t) ==
    /\ Colons(t) = 1
    /\ indexOf(t, ":") > 0
    /\ indexOf(t, ":") < Len(t) - 1

\* C18: after fix_geo_name has run, every geo_loc_name on a sample_attrib node
\* is <country>:<location>: one colon, a non-empty country before it and a
\* non-empty location after it.
C18_GeoNameIsCountryLocation ==
    (pp_log # <<>> /\ pp_log[Len(pp_log)] = "fix_geo_name") =>
        \A i \in 1..Len(nodes) :
            (nodes[i].label = "sample_attrib" /\ Has(nodes[i], "geo_loc_name"))
                => CountryLocation(nodes[i].attrs.geo_loc_name)

-----------------------------------------------------------------------------
\* The date normalizer on one date property.

DateFields ==
    {<<>>,
     <<"5">>,
     <<"0", "3">>,
     <<"1", "3">>,
     <<"1", "5">>,
     <<"3", "2">>,
     <<"2", "0", "2", "1">>,
     <<"1", "8", "9", "9">>,
     <<"2", "0", "2", "7">>,
     <<"M", "a", "r", "c", "h">>,
     <<"s", "e", "p", "t", ".">>}

DateDelims == {"/", "-", "."}

DateAlphabet == {"1", "9", "/", "-", ".", ":", " "}

Date_15_03_2021 == <<"1", "5", "/", "0", "3", "/", "2", "0", "2", "1">>

Date_03_2021 == <<"0", "3", "/", "2", "0", "2", "1">>

Date_March_2021 == <<"M", "a", "r", "c", "h", " ", "2", "0", "2", "1">>

Date_32_13_2021 == <<"3", "2", "/", "1", "3", "/", "2", "0", "2", "1">>

\* years of one, two and four digits, around the current year
YearFields ==
    {<<"5">>, <<"0", "5">>, <<"2", "1">>, <<"2", "6">>, <<"2", "7">>,
     <<"9", "9">>, <<"1", "9", "0", "0">>, <<"2", "0", "2", "6">>}

Date_15_03 == <<"1", "5", "/", "0", "3", "/">>

\* a date followed by a time of day, and a time of day followed by a date
WithTime(t) == {t \o <<" ", "0", "9", ":", "0", "0">>, t \o <<" ", "1", "0", ":", "3", "0", ":", "0", "0">>, <<"0", "9", ":", "0", "0", " ">> \o t, <<"1", "0", ":", "3", "0", ":", "0", "0", " ">> \o t}

DateTexts ==
    DateFields
    \cup {a \o <<dl>> \o b : a \in DateFields, b \in DateFields, dl \in DateDelims}
    \cup {a \o <<dl>> \o b \o <<dl>> \o c :
            a \in DateFields, b \in DateFields, c \in DateFields, dl \in DateDelims}
    \cup WithTime(Date_15_03_2021) \cup WithTime(Date_March_2021)
    \cup {Date_March_2021}
    \cup {Date_15_03 \o y : y \in YearFields}
    \cup Texts(DateAlphabet, MaxText)

\* a store holding one sample_attrib node with a collection_date
DateInit ==
    /\ InitPipeline
    /\ maxThreadCount = MaxThreads
    /\ \E v \in DateTexts :
        nodes = <<[label |-> "sample_attrib", attrs |-> [collection_date |-> v]]>>
    /\ edges = <<>>
    /\ assemblies = <<>>
    /\ snaps = <<[nodes |-> nodes, edges |-> edges]>>

DateNext == Call("clean_dates") \/ Call("set_lowercase")

DateSpec == DateInit /\ [][DateNext]_vars

DateIn == snaps[1].nodes[1].attrs.collection_date

\* the value clean_dates left: a removed property stands for unknown
DateOut == IF Has(nodes[1], "collection_date") THEN nodes[1].attrs.collection_date ELSE unknown

\* C19: the date normalizer maps "15/03/2021" to "2021-03-15", "03/2021" to
\* "2021-03-01", "March 2021" to "2021-03-01" and "32/13/2021" to unknown.
C19_DateNormalizerExamples ==
    pp_log = <<"clean_dates">> =>
        /\ DateIn = Date_15_03_2021 => DateOut = <<"2", "0", "2", "1", "-", "0", "3", "-", "1", "5">>
        /\ DateIn = Date_03_2021 => DateOut = <<"2", "0", "2", "1", "-", "0", "3", "-", "0", "1">>
        /\ DateIn = Date_March_2021 => DateOut = <<"2", "0", "2", "1", "-", "0", "3", "-", "0", "1">>
        /\ DateIn = Date_32_13_2021 => DateOut = unknown

\* yyyy-mm-dd with the year in 1900..now, the month in 01..12, the day in 01..31
WellFormedDate(t) ==
    /\ Len(t) = 10
    /\ t[5] = "-" /\ t[8] = "-"
    /\ isdigit(SubSeq(t, 1, 4)) /\ isdigit(SubSeq(t, 6, 7)) /\ isdigit(SubSeq(t, 9, 10))
    /\ Value(SubSeq(t, 1, 4)) \in 1900..now
    /\ Value(SubSeq(t, 6, 7)) \in 1..12
    /\ Value(SubSeq(t, 9, 10)) \in 1..31

\* C20: safe_fix_date returns unknown or a well-formed yyyy-mm-dd for every
\* input, and after clean_dates a date property that is still present holds a
\* well-formed date: clean_dates removed it when the result was unknown and
\* stored the result otherwise.
C20_DatesWellFormedOrRemoved ==
    /\ safe_fix_date(DateIn) = unknown \/ WellFormedDate(safe_fix_date(DateIn))
    /\ (pp_log # <<>> /\ pp_log[Len(pp_log)] = "clean_dates") =>
        /\ Has(nodes[1], "collection_date") => WellFormedDate(nodes[1].attrs.collection_date)
        /\ pp_log = <<"clean_dates">> =>
            IF safe_fix_date(DateIn) = unknown
            THEN ~Has(nodes[1], "collection_date")
            ELSE Has(nodes[1], "collection_date")
                 /\ nodes[1].attrs.collection_date = safe_fix_date(DateIn)

\* clean_dates has rewritten a date that was not in the format
C20_Witness ==
    /\ pp_log = <<"clean_dates">>
    /\ Has(nodes[1], "collection_date")
    /\ ~WellFormedDate(DateIn)
    /\ WellFormedDate(nodes[1].attrs.collection_date)

-----------------------------------------------------------------------------
\* The repair pass on a loaded graph.

\* the sample identifiers: one with capitals, one without letters
ExtIds == {<<"S", "1">>, <<"7", "1">>}

Projects == {<<"P", "1">>, <<"Q", "2">>}

\* the properties of a bases node: the attributes of the Bases element and one
\* count per Base child, named by its value (letters, or digits in colour space)
BasesAttribs ==
    {[cs_native |-> <<"f", "a", "l", "s", "e">>, count |-> <<"4">>, A |-> <<"1">>, C |-> <<"1">>,
      G |-> <<"1">>, T |-> <<"1">>],
     ("0" :> <<"2">>) @@ ("1" :> <<"2">>) @@ [cs_native |-> <<"t", "r", "u", "e">>, count |-> <<"4">>],
     [A |-> <<"1">>, C |-> <<"1">>, G |-> <<"1">>, T |-> <<"1">>]}

Optional(texts) == {<<>>} \cup {<<t>> : t \in texts}

GeoValues == Optional({<<"U", " ", ":", " ", "n">>, <<"U">>})

DateValues == Optional({Date_15_03_2021, Date_March_2021})

Prop(key, opt) == IF opt = <<>> THEN EmptyMap ELSE (key :> opt[1])

LoadedNode(label, attributes) == [label |-> label, attrs |-> attributes, ints |-> {}]

Edge(a, rel, b) == [src |-> a, rel |-> rel, dst |-> b, attrs |-> EmptyMap]

\* what the load of one record leaves in the store: every value is a text
LoadedGraph(ext, geo, date, bas, linked) ==
    Graph(<<LoadedNode("study", [alias |-> <<"P", "1">>]),
            LoadedNode("sample", [EXTERNAL_ID |-> ext]),
            LoadedNode("sample_attrib",
                       [strain |-> <<"K">>] @@ Prop("geo_loc_name", geo)
                           @@ Prop("collection_date", date)),
            LoadedNode("design", [exp_pkg |-> <<"1">>]),
            LoadedNode("read", [exp_pkg |-> <<"1">>]),
            LoadedNode("run", [exp_pkg |-> <<"1">>, published |-> <<"2", "0", "2", "1", "-", "0", "3", "-", "1", "5", " ", "1", "0", ":", "3", "0", ":", "0", "0">>]),
            LoadedNode("bases", bas @@ [exp_pkg |-> <<"1">>])>>,
          <<Edge(2, "usedIn", 1), Edge(2, "hasSampleAttribute", 3),
            Edge(4, "hasRead", 5), Edge(6, "hasBases", 7)>>
          \o (IF linked THEN <<Edge(6, "readStatistics", 5)>> ELSE <<>>))

LoadedGraphs ==
    {LoadedGraph(ext, geo, date, bas, linked) :
        ext \in ExtIds, geo \in GeoValues, date \in DateValues,
        bas \in BasesAttribs, linked \in BOOLEAN}

\* one document summary of the assembly lookup, parsed
Assembly(project, sample, strain) ==
    [project |-> project, sample |-> sample, strain |-> strain,
     stats |-> <<[category |-> <<"c", "o", "n", "t", "i", "g", "_", "c", "o", "u", "n", "t">>, value |-> <<"5">>]>>,
     attributes |-> [SubmissionDate |-> <<"2", "0", "2", "1", "/", "0", "3", "/", "1", "5", " ", "0", "0", ":", "0", "0">>]]

Lookups ==
    {<<>>} \cup {<<Assembly(p, sm, st)>> :
                    p \in Projects, sm \in ExtIds, st \in {<<>>, <<"K">>, <<"X">>}}

RepairInit ==
    /\ InitPipeline
    /\ maxThreadCount = MaxThreads
    /\ \E g \in LoadedGraphs : nodes = g.nodes /\ edges = g.edges
    /\ assemblies \in Lookups
    /\ snaps = <<Graph(nodes, edges)>>

\* the repair pass, run up to MaxPasses times, no statement failing
RepairNext == PP_Run \/ PP_Step

RepairSpec == RepairInit /\ [][RepairNext]_vars

\* one repair pass in which a statement may fail
RepairFaultNext ==
    \/ pp_finished = <<>> /\ PP_Run
    \/ PP_Step
    \/ PP_StepRaises

RepairFaultSpec == RepairInit /\ [][RepairFaultNext]_vars

Store == Graph(nodes, edges)

BasesWithoutRatio(g) ==
    {i \in 1..Len(g.nodes) : g.nodes[i].label = "bases" /\ ~Has(g.nodes[i], "GC_Ratio")}

\* C13: check_db_status is false for a graph with a bases node without
\* GC_Ratio, and true once the repair pass has run once on the graph, whatever
\* properties the bases nodes of the load carry.
C13_StatusTrueAfterOneRepairPass ==
    /\ BasesWithoutRatio(Store) # {} => ~check_db_status(Store)
    /\ (pp_pc = "idle" /\ pp_finished = <<TRUE>>) => check_db_status(Store)

\* C14: the graph after the second repair pass is the graph after the first,
\* the lookup returning the same results in both.
C14_SecondPassChangesNothing ==
    (pp_pc = "idle" /\ pp_finished = <<TRUE, TRUE>>) => snaps[3] = snaps[2]

\* the methods run in the current call of run
StepsDone == {pp_log[k] : k \in 1..Len(pp_log)}

\* C15: when a statement of a repair method fails, the repair is not aborted:
\* run has ended only after every method behind the failing one has run.
C15_RepairContinuesAfterFailure ==
    (pp_raised # {} /\ pp_pc = "idle") =>
        \A m \in Methods :
            (\E f \in pp_raised : StepIndex(m) > StepIndex(f)) => m \in StepsDone

-----------------------------------------------------------------------------
\* PostProcessingDB.run with the assembly lookup as the pipeline of threads:
\* set_assembly_data creates an AsyncEntrez and calls async_from_query.

\* the threads of the lookup, calls of any role raising
EnrichPipeline ==
    \/ Main_CreateAsy
    \/ Main_Initial(SmallCount)
    \/ Main_InitialRaises
    \/ Main_StartDB
    \/ Main_StartParser0
    \/ Main_StartProducer
    \/ Main_StartParsers
    \/ Main_WaitForDone
    \/ Consumer
    \/ \E w \in Producers : Producer(w)
    \/ \E w \in Parsers : Parser(w)

\* async_from_query returns; run goes on with set_integers and does not look
\* at asy.error
PP_EnrichReturned ==
    /\ pp_pc = "set_assembly_data"
    /\ mainpc = "emit"
    /\ pp_pc' = Steps[StepIndex(pp_pc) + 1]
    /\ pp_log' = Append(pp_log, pp_pc)
    /\ UNCHANGED <<pipeVars, graphV, pp_finished, pp_raised, assemblies, snaps>>

\* the initial query raised inside async_from_query: the except branch of run
PP_EnrichRaised ==
    /\ pp_pc = "set_assembly_data"
    /\ mainpc = "crashed"
    /\ pp_pc' = "idle"
    /\ pp_finished' = Append(pp_finished, FALSE)
    /\ snaps' = Append(snaps, Graph(nodes, edges))
    /\ UNCHANGED <<pipeVars, graphV, pp_log, pp_raised, assemblies>>

EnrichNext ==
    \/ pp_finished = <<>> /\ PP_Run
    \/ pp_pc # "set_assembly_data" /\ PP_Step
    \/ pp_pc = "set_assembly_data" /\ EnrichPipeline
    \/ PP_EnrichReturned
    \/ PP_EnrichRaised

EnrichSpec == Init /\ [][EnrichNext]_vars

\* C16: a fault in a role of the assembly lookup ends postprocessing with
\* finished(False); after such a fault run does not emit success.
C16_EnrichmentFaultReportsFailure ==
    (pp_finished # <<>> /\ faulted # {}) => pp_finished[Len(pp_finished)] = FALSE

-----------------------------------------------------------------------------
\* Loads in which the user may request an abort and no call raises.
AbortNext ==
    \/ NextClean
    \/ GuiAbort

\* the pools in which a runnable has to wait for a thread
AbortInit == Init /\ maxThreadCount < MaxThreads

AbortSpec == AbortInit /\ [][AbortNext]_vars

\* the slot LoadingDB._abort runs to its end on the GUI thread once called;
\* the user need not ever call it
FairAbortSpec ==
    /\ AbortSpec
    /\ WF_vars(MainClean(MaxCount))
    /\ WF_vars(ConsumerClean)
    /\ \A w \in Producers : WF_vars(ProducerClean(w))
    /\ \A w \in Parsers : WF_vars(ParserClean(w))
    /\ WF_vars(Abort_Step)

\* C21 as stated: once AsyncEntrez._abort was called (abort = True, its first
\* statement) the consumer writes at most one further record; no worker
\* begins more than one call after the request.
C21_AtMostOneCallAfterAbortRequest ==
    Cardinality({k \in 1..Len(written) : written[k].afterRequest}) <= 1

\* C21 amended: once AsyncEntrez._abort has set the abort flag (its last
\* statement) no worker begins more than one call; and after _abort was
\* called every worker exits, the pipeline returns and finished carries true.
C21_AtMostOneCallAfterAbortFlagSet ==
    /\ [](\A w \in Workers : lateOps[w] <= 1)
    /\ abort ~> (AllExited /\ mainpc = "done" /\ finishedSig = <<TRUE>>)

\* a consumer that wrote a record after the flag was set and has left
C21_Witness ==
    /\ abort
    /\ lateOps[DB] = 1
    /\ AllExited
    /\ mainpc = "done"
    /\ finishedSig = <<TRUE>>


-----------------------------------------------------------------------------
\* Loads of result sets of up to two pages on the largest pool, without
\* fault and without abort: two id producers run side by side.
PagesInit == Init /\ maxThreadCount = MaxThreads

PagesNext ==
    \/ MainClean(TwoPages)
    \/ ConsumerClean
    \/ \E w \in Producers : ProducerClean(w)
    \/ \E w \in Parsers : ParserClean(w)

PagesSpec == PagesInit /\ [][PagesNext]_vars

\* the producers and parsers that async_from_query starts for the result set
Started(role) ==
    IF role = "id" THEN {Id(k) : k \in 0..(max_producers - 1)} ELSE Parsers

\* worker w has called its checker and incremented the counter of its role
Signalled(w) == pc[w] \in {"checker_test", "done"}

\* producer w has put every id of its page on the id queue
PagePushed(w) ==
    /\ pc[w] \in {"checker_load", "checker_store", "checker_test", "done"}
    /\ \A j \in DOMAIN PageIds(w[2], count) : PageIds(w[2], count)[j] \in pushedIds

\* parser w has left its loop with nothing fetched left to put
LoopLeft(w) ==
    /\ pc[w] \in {"checker_load", "checker_store", "checker_test", "done"}
    /\ data[w] = <<>>

\* C22: in a run without fault or abort the producer-stage flag is set only
\* after every producer has pushed the ids of its page, it is set once as
\* many producers have completed as the result set has pages, and the
\* parser-stage flag is set only after every parser has left its loop with
\* all records of its last batch pushed.
C22_StageFlagsFollowCompletions ==
    (count > 0 /\ CleanRun) =>
        /\ prod => \A w \in Started("id") : PagePushed(w)
        /\ (\A w \in Started("id") : pc[w] = "done") => prod
        /\ pars => \A w \in Started("par") : LoopLeft(w)

-----------------------------------------------------------------------------
\* the design of the record carries no read specification
NoReadSpec(rec) == ~(rec.reads > 0 /\ rec.spd)

\* some run of the record carries read statistics
HasReadStatistics(rec) == \E k \in 1..Len(rec.runs) : rec.runs[k].stats > 0

\* C23: a written record without read specification and with read
\* statistics in some run has exactly one read node carrying its exp_pkg,
\* and every readStatistics relationship of its runs ends at that node.
C23_OnePlaceholderReadSharedByRuns ==
    \A j \in 1..Len(loaded) :
        (NoReadSpec(loaded[j].rec) /\ HasReadStatistics(loaded[j].rec)) =>
            \E r \in PkgNodes("read", loaded[j].n) :
                /\ PkgNodes("read", loaded[j].n) = {r}
                /\ \A k \in 1..Len(edges) :
                       (edges[k].rel = "readStatistics"
                          /\ edges[k].src \in PkgNodes("run", loaded[j].n))
                           => edges[k].dst = r

-----------------------------------------------------------------------------
\* the identity policy of the data model
CreatedLabels ==
    {"experiment", "design", "read", "run", "run_attrib", "sra_file",
     "bases", "member"}

MergedLabels ==
    {"platform", "submission", "organization", "study", "sample",
     "sample_attrib", "assembly"}

\* C24: every node statement emitted for a record carries CREATE when its
\* label is one of the always-created kinds and MERGE when its label is one
\* of the merge-by-attribute-set kinds.
C24_NodeStatementsFollowIdentityPolicy ==
    \A k \in 1..Len(cql) :
        cql[k].kind = "node" =>
            /\ cql[k].label \in CreatedLabels => cql[k].tag = "CREATE"
            /\ cql[k].label \in MergedLabels => cql[k].tag = "MERGE"

-----------------------------------------------------------------------------
\* the 4-digit year a year field stands for, 0 when it is not accepted
NormalizedYear(y) ==
    IF Len(y) = 4 THEN (IF Value(y) \in 1900..now THEN Value(y) ELSE 0)
    ELSE IF Len(y) = 2
    THEN (IF Value(y) <= now % 100 THEN 2000 + Value(y) ELSE 1900 + Value(y))
    ELSE 2000 + Value(y)

\* C25: the date 15/03/<year> is normalized to <yyyy>-03-15, where a 2-digit
\* year not greater than the current year's last two digits becomes 20xx and
\* any other 2-digit year 19xx, a 1-digit year becomes 200x, and a 4-digit
\* year is accepted within 1900..now ("15/03/21" gives "2021-03-15" and
\* "15/03/99" gives "1999-03-15").
C25_YearsNormalizedToFourDigits ==
    pp_log = <<"clean_dates">> =>
        \A y \in DateFields \cup YearFields :
            (isdigit(y) /\ DateIn = Date_15_03 \o y) =>
                DateOut = IF NormalizedYear(y) = 0 THEN unknown
                          ELSE str(NormalizedYear(y))
                               \o <<"-", "0", "3", "-", "1", "5">>

-----------------------------------------------------------------------------
\* the reconciled properties and the sibling that keeps the archive's value
Reconciled == {<<"alias", "sra_alias">>, <<"strain", "sra_strian">>}

\* the node as the load left it
Archived(i) == snaps[1].nodes[i]

\* C26: in every state of one or more repair passes, a sibling property that
\* exists holds the value the archive record had (in any letter case), and a
\* study alias or sample_attrib strain that differs from the archive's value
\* has that value kept under its sibling property.
C26_ArchiveValueKeptUnderSibling ==
    \A i \in 1..Len(snaps[1].nodes) :
        \A p \in Reconciled :
            Has(Archived(i), p[1]) =>
                /\ Has(nodes[i], p[2]) =>
                       toLower(nodes[i].attrs[p[2]]) = toLower(Archived(i).attrs[p[1]])
                /\ (Has(nodes[i], p[1])
                      /\ toLower(nodes[i].attrs[p[1]]) # toLower(Archived(i).attrs[p[1]]))
                       => Has(nodes[i], p[2])

-----------------------------------------------------------------------------
\* the workers of a role that have incremented the counter of the role
Completions(role) == Cardinality({w \in Started(role) : Signalled(w)})

\* C27: in a run without fault or abort, after any interleaving of the
\* checkers each completion counter equals the number of workers of its role
\* that have signalled completion, and once the last worker of a role has
\* signalled and left, the flag of the stage is set.
C27_CountersEqualCompletions ==
    /\ producers_counter = Completions("id")
    /\ parsers_counter = Completions("par")
    /\ (count > 0 /\ \A w \in Started("id") : pc[w] = "done") => prod
    /\ (count > 0 /\ \A w \in Started("par") : pc[w] = "done") => pars

-----------------------------------------------------------------------------
\* C28: for every capacity of the thread pool, in a run without fault or
\* abort every runnable that async_from_query starts is eventually given a
\* thread: the start loops end and no runnable stays queued in the pool.
C28_EveryStartedWorkerGetsAThread ==
    (count > 0 /\ CleanRun) ~> (mainpc \in {"wait", "emit", "done"} /\ poolQueue = <<>>)

-----------------------------------------------------------------------------
\* C29: a load during which an abort request was delivered to
\* LoadingDB._abort, at whatever moment after the start of the load thread,
\* ends with finished carrying true.
C29_AbortRequestNeverLost ==
    (mainpc = "done" /\ abortRequested) => finishedSig = <<TRUE>>

-----------------------------------------------------------------------------
\* LoadingDB.run has ended: it returned, or an exception left it
LoadEnded == mainpc \in {"done", "crashed"}

\* C30: a load emits finished at most once and only after every worker has
\* exited, and a load that has ended, in whatever outcome, has emitted it
\* exactly once.
C30_FinishedEmittedExactlyOnce ==
    /\ Len(finishedSig) <= 1
    /\ finishedSig # <<>> => AllExited
    /\ LoadEnded => Len(finishedSig) = 1

=============================================================================
